---- MODULE Spec2Model ----
(***************************************************************************)
(* Stream resolution pipeline of the Real-Debrid Russian torrents addon:   *)
(* the stream handler (result cache, metadata lookup, Jackett search,      *)
(* direct tracker search, Real-Debrid availability loop), in its two       *)
(* builds, with concurrent in-flight requests interleaving at every await. *)
(***************************************************************************)
EXTENDS Integers, Sequences, FiniteSets, TLC

VARIABLES
    variant,    \* which build of the handler file is deployed
    world,      \* what the external services answer (Jackett, trackers, Real-Debrid, env)
    now,        \* Date.now(), in milliseconds
    ticks,      \* number of clock advances so far
    faults,     \* number of external-call failures so far
    cache,      \* the module-level Map: cache key -> [data, timestamp]
    reqs,       \* the in-flight and finished handler invocations
    call        \* the last direct call of a helper function: its arguments and result

vars == <<variant, world, now, ticks, faults, cache, reqs, call>>

(***************************************************************************)
(* Bounds of the model.                                                    *)
(***************************************************************************)
MaxTicks == 3
MaxFaults == 1

\* two handler invocations may be in flight at once
Slots == {1, 2}

(***************************************************************************)
(* Program constants.                                                      *)
(***************************************************************************)
CACHE_TTL == 3600000
KeyPrefixLen == 8
SliceLimit == 15
SeedDiffLimit == 10
HashLen == 40

(***************************************************************************)
(* Strings are sequences of one-character strings.                         *)
(***************************************************************************)
UpperLetters ==
    <<"A","B","C","D","E","F","G","H","I","J","K","L","M",
      "N","O","P","Q","R","S","T","U","V","W","X","Y","Z">>

LowerLetters ==
    <<"a","b","c","d","e","f","g","h","i","j","k","l","m",
      "n","o","p","q","r","s","t","u","v","w","x","y","z">>

Digits == {"0","1","2","3","4","5","6","7","8","9"}

LowerChar(c) ==
    IF \E k \in 1..26 : UpperLetters[k] = c
    THEN LowerLetters[CHOOSE k \in 1..26 : UpperLetters[k] = c]
    ELSE c

UpperChar(c) ==
    IF \E k \in 1..26 : LowerLetters[k] = c
    THEN UpperLetters[CHOOSE k \in 1..26 : LowerLetters[k] = c]
    ELSE c

\* String.prototype.toLowerCase
ToLowerCase(s) == [k \in 1..Len(s) |-> LowerChar(s[k])]

\* String.prototype.toUpperCase on a string of characters
ToUpperCaseChars(s) == [k \in 1..Len(s) |-> UpperChar(s[k])]

\* String.prototype.substring(0, n)
Substring0(s, n) == SubSeq(s, 1, IF Len(s) < n THEN Len(s) ELSE n)

\* String.prototype.includes(c) for a one-character needle
IncludesChar(s, c) == \E k \in 1..Len(s) : s[k] = c

\* String.prototype.endsWith
EndsWith(s, suffix) ==
    /\ Len(suffix) <= Len(s)
    /\ SubSeq(s, Len(s) - Len(suffix) + 1, Len(s)) = suffix

\* position of the first occurrence of c in s at or after k, Len(s)+1 if none
RECURSIVE IndexFrom(_, _, _)
IndexFrom(s, c, k) ==
    IF k > Len(s) THEN Len(s) + 1
    ELSE IF s[k] = c THEN k
    ELSE IndexFrom(s, c, k + 1)

\* String.prototype.split(c) for a one-character separator
RECURSIVE SplitFrom(_, _, _)
SplitFrom(s, c, k) ==
    LET j == IndexFrom(s, c, k)
    IN  IF j > Len(s) THEN <<SubSeq(s, k, Len(s))>>
        ELSE <<SubSeq(s, k, j - 1)>> \o SplitFrom(s, c, j + 1)

Split(s, c) == SplitFrom(s, c, 1)

DigitValue(c) ==
    CASE c = "0" -> 0 [] c = "1" -> 1 [] c = "2" -> 2 [] c = "3" -> 3
      [] c = "4" -> 4 [] c = "5" -> 5 [] c = "6" -> 6 [] c = "7" -> 7
      [] c = "8" -> 8 [] c = "9" -> 9

DigitChar(d) == <<"0","1","2","3","4","5","6","7","8","9">>[d + 1]

(***************************************************************************)
(* JavaScript values that are a number, NaN, null or undefined.            *)
(***************************************************************************)
Null == [tag |-> "null", n |-> 0]
NaN == [tag |-> "nan", n |-> 0]
Num(n) == [tag |-> "num", n |-> n]

RECURSIVE DigitsValue(_, _, _)
DigitsValue(s, k, acc) ==
    IF k > Len(s) \/ s[k] \notin Digits THEN acc
    ELSE DigitsValue(s, k + 1, acc * 10 + DigitValue(s[k]))

\* parseInt(parts[k]) where parts[k] is undefined when k is past the end
ParseIntAt(parts, k) ==
    IF k > Len(parts) THEN NaN
    ELSE IF Len(parts[k]) = 0 \/ parts[k][1] \notin Digits THEN NaN
    ELSE Num(DigitsValue(parts[k], 1, 0))

RECURSIVE NatToString(_)
NatToString(n) ==
    IF n < 10 THEN <<DigitChar(n)>>
    ELSE NatToString(n \div 10) \o <<DigitChar(n % 10)>>

\* template-literal interpolation `${v}` of a number, NaN or null
Interpolate(v) ==
    CASE v.tag = "num" -> NatToString(v.n)
      [] v.tag = "nan" -> <<"N","a","N">>
      [] v.tag = "null" -> <<"n","u","l","l">>

\* String.prototype.padStart(2, '0')
PadStart2(s) == IF Len(s) >= 2 THEN s ELSE IF Len(s) = 1 THEN <<"0">> \o s ELSE <<"0","0">>

(***************************************************************************)
(* Regular expressions: a pattern is a sequence of elements, matched by    *)
(* backtracking as RegExp.prototype.test does (unanchored).                *)
(***************************************************************************)
Lit(c) == [kind |-> "lit", c |-> c]
Opt(c) == [kind |-> "opt", c |-> c]
NotDigit == [kind |-> "notdigit", c |-> ""]

\* [a-fA-F0-9]
HexClass == [kind |-> "hex", c |-> ""]

IsHexChar(c) == c \in Digits \/ LowerChar(c) \in {"a", "b", "c", "d", "e", "f"}

\* c*  \s*  .*  (?!\d)  \b
Star(c) == [kind |-> "star", c |-> c]
Spaces == [kind |-> "spaces", c |-> ""]
AnyStar == [kind |-> "anystar", c |-> ""]
NoDigitAhead == [kind |-> "nodigitahead", c |-> ""]
WordBoundary == [kind |-> "wordboundary", c |-> ""]

\* \w: a letter, a digit or the underscore
IsWordChar(c) ==
    \/ c \in Digits
    \/ c = "_"
    \/ \E k \in 1..26 : UpperLetters[k] = c \/ LowerLetters[k] = c

\* is there a word character at position k of s
WordAt(s, k) == k >= 1 /\ k <= Len(s) /\ IsWordChar(s[k])

\* the elements of a literal run of characters
Lits(s) == [k \in 1..Len(s) |-> Lit(s[k])]

CharEq(a, b, ignoreCase) ==
    IF ignoreCase THEN LowerChar(a) = LowerChar(b) ELSE a = b

RECURSIVE MatchHere(_, _, _, _, _)
MatchHere(pat, p, s, k, ignoreCase) ==
    IF p > Len(pat) THEN TRUE
    ELSE LET e == pat[p]
         IN  CASE e.kind = "lit" ->
                    /\ k <= Len(s)
                    /\ CharEq(s[k], e.c, ignoreCase)
                    /\ MatchHere(pat, p + 1, s, k + 1, ignoreCase)
               [] e.kind = "opt" ->
                    \/ /\ k <= Len(s)
                       /\ CharEq(s[k], e.c, ignoreCase)
                       /\ MatchHere(pat, p + 1, s, k + 1, ignoreCase)
                    \/ MatchHere(pat, p + 1, s, k, ignoreCase)
               [] e.kind = "notdigit" ->
                    /\ k <= Len(s)
                    /\ s[k] \notin Digits
                    /\ MatchHere(pat, p + 1, s, k + 1, ignoreCase)
               [] e.kind = "hex" ->
                    /\ k <= Len(s)
                    /\ IsHexChar(s[k])
                    /\ MatchHere(pat, p + 1, s, k + 1, ignoreCase)
               [] e.kind = "star" ->
                    \/ MatchHere(pat, p + 1, s, k, ignoreCase)
                    \/ /\ k <= Len(s)
                       /\ CharEq(s[k], e.c, ignoreCase)
                       /\ MatchHere(pat, p, s, k + 1, ignoreCase)
               [] e.kind = "spaces" ->
                    \/ MatchHere(pat, p + 1, s, k, ignoreCase)
                    \/ /\ k <= Len(s)
                       /\ s[k] = " "
                       /\ MatchHere(pat, p, s, k + 1, ignoreCase)
               [] e.kind = "anystar" ->
                    \/ MatchHere(pat, p + 1, s, k, ignoreCase)
                    \/ /\ k <= Len(s)
                       /\ MatchHere(pat, p, s, k + 1, ignoreCase)
               [] e.kind = "nodigitahead" ->
                    /\ k > Len(s) \/ s[k] \notin Digits
                    /\ MatchHere(pat, p + 1, s, k, ignoreCase)
               [] e.kind = "wordboundary" ->
                    /\ WordAt(s, k - 1) # WordAt(s, k)
                    /\ MatchHere(pat, p + 1, s, k, ignoreCase)

\* pattern.test(s)
RegExpTest(pat, s, ignoreCase) ==
    \E k \in 1..(Len(s) + 1) : MatchHere(pat, 1, s, k, ignoreCase)

(***************************************************************************)
(* findVideoFile(files, season, episode) of the handler file.  A file is   *)
(* [hasPath, path]; hasPath = FALSE is a file whose path is undefined.     *)
(* The result is [threw, value]: threw = TRUE is a TypeError.              *)
(***************************************************************************)
VideoExts == {<<".","m","k","v">>, <<".","m","p","4">>, <<".","a","v","i">>}

IsVideoName(name) == \E ext \in VideoExts : EndsWith(name, ext)

\* new RegExp(`s0?${season}e0?${episode}`, 'i')
PatternSxxEyy(season, episode) ==
    <<Lit("s"), Opt("0")>> \o Lits(Interpolate(season))
        \o <<Lit("e"), Opt("0")>> \o Lits(Interpolate(episode))

\* new RegExp(`${season}x0?${episode}`, 'i')
PatternNxMM(season, episode) ==
    Lits(Interpolate(season)) \o <<Lit("x"), Opt("0")>> \o Lits(Interpolate(episode))

\* new RegExp(`[^\\d]${season}${episode.toString().padStart(2, '0')}[^\\d]`)
PatternCompact(season, episode) ==
    <<NotDigit>> \o Lits(Interpolate(season))
        \o Lits(PadStart2(Interpolate(episode))) \o <<NotDigit>>

MatchesEpisode(name, season, episode) ==
    \/ RegExpTest(PatternSxxEyy(season, episode), name, TRUE)
    \/ RegExpTest(PatternNxMM(season, episode), name, TRUE)
    \/ RegExpTest(PatternCompact(season, episode), name, FALSE)

Threw == [threw |-> TRUE, value |-> Null]
Returned(v) == [threw |-> FALSE, value |-> v]

\* the fallback loop returning the loop variable i instead of i + 1
RECURSIVE FirstVideoFromZeroBased(_, _)
FirstVideoFromZeroBased(files, k) ==
    IF k > Len(files) THEN Returned(Null)
    ELSE IF ~files[k].hasPath THEN Threw
    ELSE IF IsVideoName(ToLowerCase(files[k].path)) THEN Returned(Num(k - 1))
    ELSE FirstVideoFromZeroBased(files, k + 1)

\* second loop: the first file with a video extension
RECURSIVE FirstVideoFrom(_, _)
FirstVideoFrom(files, k) ==
    IF k > Len(files) THEN Returned(Null)
    ELSE IF ~files[k].hasPath THEN Threw
    ELSE IF IsVideoName(ToLowerCase(files[k].path)) THEN Returned(Num(k))
    ELSE FirstVideoFrom(files, k + 1)

\* first loop: the first video file matching one of the patterns
RECURSIVE FirstMatchFrom(_, _, _, _)
FirstMatchFrom(files, season, episode, k) ==
    IF k > Len(files) THEN FirstVideoFrom(files, 1)
    ELSE IF ~files[k].hasPath THEN Threw
    ELSE LET name == ToLowerCase(files[k].path)
         IN  IF ~IsVideoName(name) THEN FirstMatchFrom(files, season, episode, k + 1)
             ELSE IF episode.tag = "null" THEN Threw
             ELSE IF MatchesEpisode(name, season, episode) THEN Returned(Num(k))
             ELSE FirstMatchFrom(files, season, episode, k + 1)

findVideoFile(files, season, episode) == FirstMatchFrom(files, season, episode, 1)

(***************************************************************************)
(* TorrentUtils.parseQuality(title).                                       *)
(***************************************************************************)
\* String.prototype.includes
Includes(s, sub) ==
    \E k \in 0..(Len(s) - Len(sub)) : SubSeq(s, k + 1, k + Len(sub)) = sub

\* a field of the quality object left at null
NullField == "null"

\* parseQuality testing 1080p before the 4K keywords
parseQualityFullHDFirst(title) ==
    LET t == ToLowerCase(title)
    IN  [resolution |->
            IF Includes(t, <<"1","0","8","0","p">>)
                THEN "1080p"
            ELSE IF Includes(t, <<"2","1","6","0","p">>) \/ Includes(t, <<"4","k">>) \/ Includes(t, <<"u","h","d">>)
                THEN "4K"
            ELSE IF Includes(t, <<"7","2","0","p">>)
                THEN "720p"
            ELSE IF Includes(t, <<"4","8","0","p">>)
                THEN "480p"
            ELSE NullField,
         source |->
            IF Includes(t, <<"r","e","m","u","x">>)
                THEN "REMUX"
            ELSE IF Includes(t, <<"b","l","u","r","a","y">>) \/ Includes(t, <<"b","d","r","i","p">>) \/ Includes(t, <<"b","r","r","i","p">>)
                THEN "BluRay"
            ELSE IF Includes(t, <<"w","e","b","-","d","l">>) \/ Includes(t, <<"w","e","b","d","l">>)
                THEN "WEB-DL"
            ELSE IF Includes(t, <<"w","e","b","r","i","p">>)
                THEN "WEBRip"
            ELSE IF Includes(t, <<"h","d","t","v">>)
                THEN "HDTV"
            ELSE IF Includes(t, <<"d","v","d","r","i","p">>)
                THEN "DVDRip"
            ELSE IF Includes(t, <<"c","a","m">>) \/ Includes(t, <<"c","a","m","r","i","p">>)
                THEN "CAM"
            ELSE IF Includes(t, <<"t","s">>) \/ Includes(t, <<"t","e","l","e","s","y","n","c">>)
                THEN "TS"
            ELSE NullField,
         codec |->
            IF Includes(t, <<"h","e","v","c">>) \/ Includes(t, <<"h","2","6","5">>) \/ Includes(t, <<"x","2","6","5">>)
                THEN "HEVC"
            ELSE IF Includes(t, <<"h","2","6","4">>) \/ Includes(t, <<"x","2","6","4">>) \/ Includes(t, <<"a","v","c">>)
                THEN "H.264"
            ELSE IF Includes(t, <<"a","v","1">>)
                THEN "AV1"
            ELSE NullField,
         audio |->
            IF Includes(t, <<"a","t","m","o","s">>)
                THEN "Dolby Atmos"
            ELSE IF Includes(t, <<"t","r","u","e","h","d">>)
                THEN "TrueHD"
            ELSE IF Includes(t, <<"d","t","s","-","h","d">>) \/ Includes(t, <<"d","t","s","-","m","a">>)
                THEN "DTS-HD"
            ELSE IF Includes(t, <<"d","t","s">>)
                THEN "DTS"
            ELSE IF Includes(t, <<"d","d","5",".","1">>) \/ Includes(t, <<"a","c","3">>)
                THEN "DD 5.1"
            ELSE IF Includes(t, <<"a","a","c">>)
                THEN "AAC"
            ELSE NullField,
         hdr |-> Includes(t, <<"h","d","r">>) \/ Includes(t, <<"h","d","r","1","0">>) \/ Includes(t, <<"d","o","l","b","y"," ","v","i","s","i","o","n">>) \/ Includes(t, <<"d","v">>)]

\* the quality object built from the lower-cased title
parseQuality(title) ==
    LET t == ToLowerCase(title)
    IN  [resolution |->
            IF Includes(t, <<"2","1","6","0","p">>) \/ Includes(t, <<"4","k">>) \/ Includes(t, <<"u","h","d">>)
                THEN "4K"
            ELSE IF Includes(t, <<"1","0","8","0","p">>)
                THEN "1080p"
            ELSE IF Includes(t, <<"7","2","0","p">>)
                THEN "720p"
            ELSE IF Includes(t, <<"4","8","0","p">>)
                THEN "480p"
            ELSE NullField,
         source |->
            IF Includes(t, <<"r","e","m","u","x">>)
                THEN "REMUX"
            ELSE IF Includes(t, <<"b","l","u","r","a","y">>) \/ Includes(t, <<"b","d","r","i","p">>) \/ Includes(t, <<"b","r","r","i","p">>)
                THEN "BluRay"
            ELSE IF Includes(t, <<"w","e","b","-","d","l">>) \/ Includes(t, <<"w","e","b","d","l">>)
                THEN "WEB-DL"
            ELSE IF Includes(t, <<"w","e","b","r","i","p">>)
                THEN "WEBRip"
            ELSE IF Includes(t, <<"h","d","t","v">>)
                THEN "HDTV"
            ELSE IF Includes(t, <<"d","v","d","r","i","p">>)
                THEN "DVDRip"
            ELSE IF Includes(t, <<"c","a","m">>) \/ Includes(t, <<"c","a","m","r","i","p">>)
                THEN "CAM"
            ELSE IF Includes(t, <<"t","s">>) \/ Includes(t, <<"t","e","l","e","s","y","n","c">>)
                THEN "TS"
            ELSE NullField,
         codec |->
            IF Includes(t, <<"h","e","v","c">>) \/ Includes(t, <<"h","2","6","5">>) \/ Includes(t, <<"x","2","6","5">>)
                THEN "HEVC"
            ELSE IF Includes(t, <<"h","2","6","4">>) \/ Includes(t, <<"x","2","6","4">>) \/ Includes(t, <<"a","v","c">>)
                THEN "H.264"
            ELSE IF Includes(t, <<"a","v","1">>)
                THEN "AV1"
            ELSE NullField,
         audio |->
            IF Includes(t, <<"a","t","m","o","s">>)
                THEN "Dolby Atmos"
            ELSE IF Includes(t, <<"t","r","u","e","h","d">>)
                THEN "TrueHD"
            ELSE IF Includes(t, <<"d","t","s","-","h","d">>) \/ Includes(t, <<"d","t","s","-","m","a">>)
                THEN "DTS-HD"
            ELSE IF Includes(t, <<"d","t","s">>)
                THEN "DTS"
            ELSE IF Includes(t, <<"d","d","5",".","1">>) \/ Includes(t, <<"a","c","3">>)
                THEN "DD 5.1"
            ELSE IF Includes(t, <<"a","a","c">>)
                THEN "AAC"
            ELSE NullField,
         hdr |-> Includes(t, <<"h","d","r">>) \/ Includes(t, <<"h","d","r","1","0">>) \/ Includes(t, <<"d","o","l","b","y"," ","v","i","s","i","o","n">>) \/ Includes(t, <<"d","v">>)]

(***************************************************************************)
(* TorrentUtils.findEpisodeFile(files, season, episode).  The Cyrillic     *)
(* letters of its fourth pattern are written by their names.               *)
(***************************************************************************)
UtilsVideoExts == VideoExts \cup {<<".","m","o","v">>, <<".","w","m","v">>}

IsUtilsVideoName(name) == \E ext \in UtilsVideoExts : EndsWith(name, ext)

Sezon == <<"cyr_es", "cyr_ie", "cyr_ze", "cyr_o", "cyr_en">>
Seriya == <<"cyr_es", "cyr_ie", "cyr_er", "cyr_i", "cyr_ya">>

\* new RegExp(`s0*${season}e0*${episode}(?!\\d)`, 'i')
UtilsPatternSxxEyy(season, episode) ==
    <<Lit("s"), Star("0")>> \o Lits(Interpolate(season))
        \o <<Lit("e"), Star("0")>> \o Lits(Interpolate(episode)) \o <<NoDigitAhead>>

\* new RegExp(`\\b${season}x0*${episode}(?!\\d)`, 'i')
UtilsPatternNxMM(season, episode) ==
    <<WordBoundary>> \o Lits(Interpolate(season))
        \o <<Lit("x"), Star("0")>> \o Lits(Interpolate(episode)) \o <<NoDigitAhead>>

\* new RegExp(`season\\s*0*${season}.*episode\\s*0*${episode}`, 'i')
UtilsPatternSeasonEpisode(season, episode) ==
    Lits(<<"s","e","a","s","o","n">>) \o <<Spaces, Star("0")>> \o Lits(Interpolate(season))
        \o <<AnyStar>> \o Lits(<<"e","p","i","s","o","d","e">>)
        \o <<Spaces, Star("0")>> \o Lits(Interpolate(episode))

\* new RegExp(`сезон\\s*0*${season}.*серия\\s*0*${episode}`, 'i')
UtilsPatternSezonSeriya(season, episode) ==
    Lits(Sezon) \o <<Spaces, Star("0")>> \o Lits(Interpolate(season))
        \o <<AnyStar>> \o Lits(Seriya)
        \o <<Spaces, Star("0")>> \o Lits(Interpolate(episode))

\* patterns.some(pattern => pattern.test(name))
UtilsMatchesEpisode(name, season, episode) ==
    \/ RegExpTest(UtilsPatternSxxEyy(season, episode), name, TRUE)
    \/ RegExpTest(UtilsPatternNxMM(season, episode), name, TRUE)
    \/ RegExpTest(UtilsPatternSeasonEpisode(season, episode), name, TRUE)
    \/ RegExpTest(UtilsPatternSezonSeriya(season, episode), name, TRUE)

\* (file.path || file.name || '').toLowerCase()
UtilsFileName(file) == IF file.hasPath THEN ToLowerCase(file.path) ELSE <<>>

\* second loop: the first file with a video extension, or null
RECURSIVE UtilsFirstVideoFrom(_, _)
UtilsFirstVideoFrom(files, k) ==
    IF k > Len(files) THEN Null
    ELSE IF IsUtilsVideoName(UtilsFileName(files[k])) THEN Num(k)
    ELSE UtilsFirstVideoFrom(files, k + 1)

\* first loop: the first video file matching one of the patterns
RECURSIVE UtilsFirstMatchFrom(_, _, _, _)
UtilsFirstMatchFrom(files, season, episode, k) ==
    IF k > Len(files) THEN UtilsFirstVideoFrom(files, 1)
    ELSE LET name == UtilsFileName(files[k])
         IN  IF IsUtilsVideoName(name) /\ UtilsMatchesEpisode(name, season, episode)
             THEN Num(k)
             ELSE UtilsFirstMatchFrom(files, season, episode, k + 1)

findEpisodeFile(files, season, episode) == UtilsFirstMatchFrom(files, season, episode, 1)

(***************************************************************************)
(* Identity hashes.  A hash string is its case-insensitive content (base)  *)
(* and the letter case it is written in; toUpperCase changes the case only.*)
(***************************************************************************)
Hash(base, case) == [base |-> base, case |-> case]

NoHash == Hash(<<>>, "upper")

\* String.prototype.toUpperCase on a hash string
ToUpperCase(h) == [h EXCEPT !.case = "upper"]

\* a magnet reference: kind "btih40" carries a 40-hex btih, "other" a magnet
\* without one, "none" no magnet at all
Magnet(kind, h) == [kind |-> kind, hash |-> h]

NoMagnet == Magnet("none", NoHash)

\* Array.prototype.flat over a sequence of sequences
RECURSIVE Flatten(_)
Flatten(ss) == IF ss = <<>> THEN <<>> ELSE Head(ss) \o Flatten(Tail(ss))

\* the hash a string of characters spells: its lower-cased characters and the
\* case it is written in
HashOf(s) ==
    Hash(ToLowerCase(s),
         IF s = ToUpperCaseChars(s) THEN "upper"
         ELSE IF s = ToLowerCase(s) THEN "lower" ELSE "mixed")

\* s.match(/<prefix>([a-fA-F0-9]{40})/)[1], the first match from the left;
\* <<>> when the pattern does not match
MatchBtih(prefix, s, ignoreCase) ==
    LET pat == Lits(prefix) \o [k \in 1..HashLen |-> HexClass]
        at == {k \in 1..Len(s) : MatchHere(pat, 1, s, k, ignoreCase)}
    IN  IF at = {} THEN <<>>
        ELSE LET k == CHOOSE k1 \in at : \A k2 \in at : k1 <= k2
             IN  SubSeq(s, k + Len(prefix), k + Len(prefix) + HashLen - 1)

\* item.MagnetUri as JackettSearcher.search reads it: missing or empty, a
\* match of /btih:([a-fA-F0-9]{40})/i, or a link without such a hash
JackettMagnetUri(uri) ==
    IF uri = <<>> THEN NoMagnet
    ELSE LET m == MatchBtih(<<"b","t","i","h",":">>, uri, TRUE)
         IN  IF m = <<>> THEN Magnet("other", NoHash) ELSE Magnet("btih40", HashOf(m))

MagnetPrefix ==
    <<"m","a","g","n","e","t",":","?","x","t","=","u","r","n",":","b","t","i","h",":">>

\* the href of a Rutor row as searchRutor reads it: missing or without
\* 'magnet:', a match of /magnet:\?xt=urn:btih:([a-fA-F0-9]{40})/, or a
\* magnet without such a hash
RutorHref(href) ==
    IF href = <<>> \/ ~Includes(href, <<"m","a","g","n","e","t",":">>) THEN NoMagnet
    ELSE LET m == MatchBtih(MagnetPrefix, href, FALSE)
         IN  IF m = <<>> THEN Magnet("other", NoHash) ELSE Magnet("btih40", HashOf(m))

\* the two hexadecimal digits that stand for a character in a digest
CharHex(c) ==
    CASE c \in Digits -> <<"3", c>>
      [] c = "t" -> <<"7","4">> [] c = "r" -> <<"7","2">> [] c = "a" -> <<"6","1">>
      [] c = "c" -> <<"6","3">> [] c = "k" -> <<"6","b">> [] c = "e" -> <<"6","5">>
      [] c = "_" -> <<"5","f">>
      [] OTHER -> <<"0","0">>

\* createHash('sha1').update(msg).digest('hex'): 40 lower-case hexadecimal
\* characters, different for different messages (SHA-1 is taken to be free
\* of collisions); the digest is stood for by the codes of the message's
\* characters, zero-padded
Sha1Hex(msg) ==
    LET codes == Flatten([k \in 1..Len(msg) |-> CharHex(msg[k])])
    IN  [k \in 1..HashLen |-> IF k <= Len(codes) THEN codes[k] ELSE "0"]

Candidate(title, infoHash, seeders, source) ==
    [title |-> title, infoHash |-> infoHash, seeders |-> seeders, source |-> source]

(***************************************************************************)
(* TorrentUtils.removeDuplicates and TorrentUtils.sortByPriority.  A       *)
(* torrent is the fields they read plus its source.                        *)
(***************************************************************************)
Torrent(infoHash, seeders, quality, source) ==
    [infoHash |-> infoHash, seeders |-> seeders, quality |-> quality, source |-> source]

\* the filter comparing the hashes as they are written, without toUpperCase
RECURSIVE RemoveDuplicatesCaseSensitive(_, _, _)
RemoveDuplicatesCaseSensitive(torrents, k, seen) ==
    IF k > Len(torrents) THEN <<>>
    ELSE LET torrent == torrents[k]
         IN  IF torrent.infoHash = NoHash
             THEN <<torrent>> \o RemoveDuplicatesCaseSensitive(torrents, k + 1, seen)
             ELSE IF torrent.infoHash \in seen
                  THEN RemoveDuplicatesCaseSensitive(torrents, k + 1, seen)
                  ELSE <<torrent>> \o
                       RemoveDuplicatesCaseSensitive(torrents, k + 1,
                                                     seen \cup {torrent.infoHash})

\* torrents.filter(...) from position k on, with the Set `seen` so far
RECURSIVE RemoveDuplicatesFrom(_, _, _)
RemoveDuplicatesFrom(torrents, k, seen) ==
    IF k > Len(torrents) THEN <<>>
    ELSE LET torrent == torrents[k]
             hash == ToUpperCase(torrent.infoHash)
         IN  IF torrent.infoHash = NoHash
             THEN <<torrent>> \o RemoveDuplicatesFrom(torrents, k + 1, seen)
             ELSE IF hash \in seen
                  THEN RemoveDuplicatesFrom(torrents, k + 1, seen)
                  ELSE <<torrent>> \o
                       RemoveDuplicatesFrom(torrents, k + 1, seen \cup {hash})

removeDuplicates(torrents) == RemoveDuplicatesFrom(torrents, 1, {})

\* qualityPriority[quality] || 0
qualityPriority(quality) ==
    CASE quality = "4K" -> 100
      [] quality = "REMUX" -> 95
      [] quality = "2160p" -> 90
      [] quality = "1080p" -> 80
      [] quality = "BluRay" -> 70
      [] quality = "720p" -> 60
      [] quality = "WEB-DL" -> 65
      [] quality = "WEBRip" -> 60
      [] quality = "HDTV" -> 50
      [] quality = "480p" -> 40
      [] OTHER -> 0

Abs(n) == IF n < 0 THEN 0 - n ELSE n

\* a comparator that looks at the seeders only
CompareSeedersOnly(a, b) == b.seeders - a.seeders

\* the comparator passed to sort
ComparePriority(a, b) ==
    LET seedDiff == b.seeders - a.seeders
    IN  IF Abs(seedDiff) > SeedDiffLimit THEN seedDiff
        ELSE qualityPriority(b.quality) - qualityPriority(a.quality)

Reverse(s) == [k \in 1..Len(s) |-> s[Len(s) + 1 - k]]

\* Array.prototype.sort as Node.js runs it on an array shorter than 64: the
\* initial run is counted (and reversed when descending), then the remaining
\* elements are inserted by binary search.
\* the length of the initial run, idx being the next position to look at
RECURSIVE CountRun(_, _, _)
CountRun(arr, idx, isDescending) ==
    IF idx > Len(arr) THEN Len(arr)
    ELSE LET order == ComparePriority(arr[idx], arr[idx - 1])
         IN  IF (isDescending /\ order >= 0) \/ (~isDescending /\ order < 0)
             THEN idx - 1
             ELSE CountRun(arr, idx + 1, isDescending)

\* the insertion point of pivot within arr[left + 1 .. right]
RECURSIVE BinarySearch(_, _, _, _)
BinarySearch(arr, pivot, left, right) ==
    IF left >= right THEN left
    ELSE LET mid == left + ((right - left) \div 2)
         IN  IF ComparePriority(pivot, arr[mid + 1]) < 0
             THEN BinarySearch(arr, pivot, left, mid)
             ELSE BinarySearch(arr, pivot, mid + 1, right)

\* the elements after the first `start` ones inserted one by one
RECURSIVE BinaryInsertionSort(_, _)
BinaryInsertionSort(arr, start) ==
    IF start >= Len(arr) THEN arr
    ELSE LET pivot == arr[start + 1]
             left == BinarySearch(arr, pivot, 0, start)
         IN  BinaryInsertionSort(SubSeq(arr, 1, left) \o <<pivot>>
                                     \o SubSeq(arr, left + 1, start)
                                     \o SubSeq(arr, start + 2, Len(arr)),
                                 start + 1)

ArraySort(arr) ==
    IF Len(arr) < 2 THEN arr
    ELSE LET isDescending == ComparePriority(arr[2], arr[1]) < 0
             run == CountRun(arr, 3, isDescending)
             made == IF isDescending
                     THEN Reverse(SubSeq(arr, 1, run)) \o SubSeq(arr, run + 1, Len(arr))
                     ELSE arr
         IN  BinaryInsertionSort(made, run)

sortByPriority(torrents) == ArraySort(torrents)

(***************************************************************************)
(* JackettSearcher                                                         *)
(***************************************************************************)
\* constructor: enabled iff both the URL and the API key are configured
JackettEnabled(env) == env.JACKETT_URL /\ env.JACKETT_API_KEY

\* the mapping of one hit keeping the hash as the magnet writes it
JackettMapHitKeepsCase(item) ==
    IF item.MagnetUri.kind = "btih40"
    THEN <<Candidate(item.Title, item.MagnetUri.hash, item.Seeders, item.Tracker)>>
    ELSE <<>>

\* the mapping of one hit; <<>> when no info hash can be extracted
JackettMapHit(item) ==
    IF item.MagnetUri.kind = "btih40"
    THEN <<Candidate(item.Title, ToUpperCase(item.MagnetUri.hash), item.Seeders,
                     item.Tracker)>>
    ELSE <<>>

\* results of search() from the Results array of a successful response
JackettResults(hits) ==
    LET withLink == SelectSeq(hits, LAMBDA item : item.MagnetUri.kind # "none" \/ item.Link)
    IN  Flatten([k \in 1..Len(withLink) |-> JackettMapHit(withLink[k])])

\* outcome.ok = FALSE: the request failed or timed out (caught, [])
JackettSearch(env, outcome) ==
    IF ~JackettEnabled(env) THEN <<>>
    ELSE IF ~outcome.ok THEN <<>>
    ELSE JackettResults(outcome.hits)

(***************************************************************************)
(* TorrentSearcher: the three tracker adapters and the aggregation.        *)
(***************************************************************************)
Trackers == <<"Rutor", "RuTracker", "Kinozal">>

TrackerSet == {Trackers[k] : k \in 1..Len(Trackers)}

\* generateDummyHash(id): sha1 of `tracker_${id}`, hex, upper-cased
generateDummyHash(topicId) ==
    ToUpperCase(Hash(Sha1Hex(<<"t","r","a","c","k","e","r","_">> \o topicId), "lower"))

\* one row of the Rutor result table; the first row (i === 0) is skipped
RutorRow(row) ==
    IF ~row.hasLink THEN <<>>
    ELSE IF row.href.kind = "none" THEN <<>>
    ELSE IF row.href.kind # "btih40" THEN <<>>
    ELSE <<Candidate(row.title, ToUpperCase(row.href.hash), row.seeders, "Rutor")>>

RutorParse(rows) ==
    Flatten([k \in 1..Len(rows) |-> IF k = 1 THEN <<>> ELSE RutorRow(rows[k])])

\* one row of RuTracker or Kinozal: no magnet, a hash made from the topic id
TopicRow(row, source) ==
    IF ~row.hasTitle THEN <<>>
    ELSE IF row.topicId = <<>> THEN <<>>
    ELSE <<Candidate(row.title, generateDummyHash(row.topicId), row.seeders, source)>>

TopicParse(rows, source) == Flatten([k \in 1..Len(rows) |-> TopicRow(rows[k], source)])

Fulfilled(value) == [status |-> "fulfilled", value |-> value]
Rejected == [status |-> "rejected", value |-> <<>>]
Pending == [status |-> "pending", value |-> <<>>]

\* searchRutor / searchRutracker / searchKinozal: the settled promise.
\* outcome.ok = FALSE is the page fetch failing or timing out: caught, [].
SearchTracker(tracker, outcome) ==
    IF ~outcome.ok THEN Fulfilled(<<>>)
    ELSE IF tracker = "Rutor" THEN Fulfilled(RutorParse(outcome.rows))
    ELSE Fulfilled(TopicParse(outcome.rows, tracker))

\* all-or-nothing aggregation: one adapter that comes back with nothing
\* (a failed one does) loses every result
MergeAllOrNothing(allResults) ==
    IF \E k \in 1..Len(allResults) : allResults[k].value = <<>>
    THEN <<>>
    ELSE Flatten([k \in 1..Len(allResults) |-> allResults[k].value])

\* the forEach over Promise.allSettled's results
MergeSettled(allResults) ==
    Flatten([k \in 1..Len(allResults) |->
                IF allResults[k].status = "fulfilled" THEN allResults[k].value ELSE <<>>])

\* an insertion that puts an element before its equals
RECURSIVE InsertBeforeEquals(_, _)
InsertBeforeEquals(sorted, x) ==
    IF sorted = <<>> THEN <<x>>
    ELSE IF x.seeders >= Head(sorted).seeders THEN <<x>> \o sorted
    ELSE <<Head(sorted)>> \o InsertBeforeEquals(Tail(sorted), x)

\* Array.prototype.sort is stable: insert each element after its equals
RECURSIVE InsertBySeeders(_, _)
InsertBySeeders(sorted, x) ==
    IF sorted = <<>> THEN <<x>>
    ELSE IF x.seeders > Head(sorted).seeders THEN <<x>> \o sorted
    ELSE <<Head(sorted)>> \o InsertBySeeders(Tail(sorted), x)

RECURSIVE SortBySeeders(_)
SortBySeeders(s) ==
    IF s = <<>> THEN <<>>
    ELSE InsertBySeeders(SortBySeeders(SubSeq(s, 1, Len(s) - 1)), s[Len(s)])

\* what TorrentSearcher.search returns once every adapter has settled
SearchResult(allResults) == SortBySeeders(MergeSettled(allResults))

(***************************************************************************)
(* RealDebridClient.checkAvailability                                      *)
(***************************************************************************)
NotAvailable == [available |-> FALSE, files |-> <<>>]

\* response.data[infoHash]: the entries stored under exactly that key
DataAt(data, infoHash) == {e \in data : e.key = infoHash}

\* outcome.ok = FALSE is the HTTP call failing: caught, { available: false }
checkAvailability(infoHash, outcome) ==
    IF ~outcome.ok THEN NotAvailable
    ELSE IF DataAt(outcome.data, infoHash) = {} THEN NotAvailable
    ELSE LET variants == CHOOSE e \in DataAt(outcome.data, infoHash) : TRUE
         IN  IF Len(variants.rd) > 0
             THEN [available |-> TRUE, files |-> variants.rd[1]]
             ELSE NotAvailable

(***************************************************************************)
(* The result cache: getCache / setCache over the module-level Map.        *)
(***************************************************************************)
Miss(c) == [hit |-> FALSE, data |-> <<>>, cache |-> c]

\* getCache expiring an entry already at age CACHE_TTL (>= for >)
getCacheExpiresAtTTL(c, key, t) ==
    IF key \notin DOMAIN c THEN Miss(c)
    ELSE IF t - c[key].timestamp >= CACHE_TTL
         THEN Miss([k \in DOMAIN c \ {key} |-> c[k]])
         ELSE [hit |-> TRUE, data |-> c[key].data, cache |-> c]

\* getCache(key) at time t: the value read and the Map afterwards
getCache(c, key, t) ==
    IF key \notin DOMAIN c THEN Miss(c)
    ELSE IF t - c[key].timestamp > CACHE_TTL
         THEN Miss([k \in DOMAIN c \ {key} |-> c[k]])
         ELSE [hit |-> TRUE, data |-> c[key].data, cache |-> c]

\* setCache(key, data) at time t
setCache(c, key, data, t) ==
    [k \in DOMAIN c \cup {key} |->
        IF k = key THEN [data |-> data, timestamp |-> t] ELSE c[k]]

(***************************************************************************)
(* The stream handler.  A request record holds the handler's locals and    *)
(* its position (pc) between awaits:                                       *)
(*   idle      not invoked yet                                             *)
(*   metadata  awaiting getMetadata                                        *)
(*   jackett   awaiting jackettSearcher.search                             *)
(*   direct    awaiting directSearcher.search (Promise.allSettled)         *)
(*   check     awaiting rdClient.checkAvailability(torrents[i].infoHash)   *)
(*   done      returned `result`                                           *)
(*   rejected  the returned promise rejected                               *)
(* calls and checks record which external services the request has called  *)
(* and what each availability check answered.                              *)
(***************************************************************************)
NoConfig == [present |-> FALSE, keyKind |-> "undefined", key |-> <<>>]

\* config.rdApiKey is a string
StringKey(key) == [present |-> TRUE, keyKind |-> "string", key |-> key]

\* config is an object without rdApiKey
EmptyConfig == [present |-> TRUE, keyKind |-> "undefined", key |-> <<>>]

\* config.rdApiKey is a non-zero number (a JSON config may carry one)
NumberKey == [present |-> TRUE, keyKind |-> "number", key |-> <<>>]

\* !config.rdApiKey
KeyFalsy(config) ==
    \/ config.keyKind = "undefined"
    \/ config.keyKind = "string" /\ config.key = <<>>

Stream(name, title, infoHash, fileIdx) ==
    [notFound |-> FALSE, name |-> name, title |-> title, infoHash |-> infoHash,
     fileIdx |-> fileIdx]

PseudoStream(name) ==
    [notFound |-> TRUE, name |-> name, title |-> "", infoHash |-> NoHash, fileIdx |-> Null]

\* the "API key required" entry returned when no credential is configured
ConfigRequiredStreams == <<PseudoStream("config-required")>>

\* the error entry built by the handler's outer catch
ErrorStreams == <<PseudoStream("error")>>

NoneSettled == [t \in TrackerSet |-> [status |-> "none", value |-> <<>>]]

IdleReq ==
    [pc |-> "idle", type |-> "", id |-> <<>>, config |-> NoConfig,
     imdbId |-> <<>>, season |-> Null, episode |-> Null, cacheKey |-> <<>>,
     hit |-> FALSE, jackett |-> <<>>, settled |-> NoneSettled, fetched |-> {},
     torrents |-> <<>>, i |-> 0, streams |-> <<>>, result |-> <<>>,
     calls |-> {}, checks |-> <<>>]

Out(req, c) == [req |-> req, cache |-> c]

\* return { streams }
Return(req, streams) == [req EXCEPT !.pc = "done", !.result = streams]

\* an outer catch that rethrows instead of returning the error entry
CatchRethrows(req) == [req EXCEPT !.pc = "rejected"]

\* the handler's outer catch (error): return the error entry
Catch(req) == Return(req, ErrorStreams)

\* `streams:${id}:${config.rdApiKey.substring(0, 8)}`
CacheKey(id, key) ==
    <<"s","t","r","e","a","m","s",":">> \o id \o <<":">> \o Substring0(key, KeyPrefixLen)

\* season and episode parsed from the id
ParseId(req) ==
    LET parts == Split(req.id, ":")
    IN  IF req.type = "series" /\ IncludesChar(req.id, ":")
        THEN [req EXCEPT !.imdbId = parts[1],
                         !.season = ParseIntAt(parts, 2),
                         !.episode = ParseIntAt(parts, 3)]
        ELSE [req EXCEPT !.imdbId = parts[1]]

\* the cache consulted only after getMetadata has been called
LookupAfterMetadata(req, c, t) ==
    IF req.config.keyKind # "string" THEN Out(Catch(req), c)
    ELSE LET key == CacheKey(req.id, req.config.key)
             got == getCache(c, key, t)
             keyed == [req EXCEPT !.cacheKey = key, !.calls = @ \cup {"metadata"}]
         IN  IF got.hit
             THEN Out(Return([keyed EXCEPT !.hit = TRUE], got.data), got.cache)
             ELSE Out([keyed EXCEPT !.pc = "metadata"], got.cache)

\* from the cache lookup up to the first await (getMetadata)
LookupAndGo(req, c, t) ==
    IF req.config.keyKind # "string" THEN Out(Catch(req), c)
    ELSE LET key == CacheKey(req.id, req.config.key)
             got == getCache(c, key, t)
             keyed == [req EXCEPT !.cacheKey = key]
         IN  IF got.hit
             THEN Out(Return([keyed EXCEPT !.hit = TRUE], got.data), got.cache)
             ELSE Out([keyed EXCEPT !.pc = "metadata", !.calls = @ \cup {"metadata"}],
                      got.cache)

\* the credential check of the handler that has one
CredentialCheck(req, c, t) ==
    IF ~req.config.present \/ KeyFalsy(req.config)
    THEN Out(Return(req, ConfigRequiredStreams), c)
    ELSE LookupAndGo(ParseId(req), c, t)

\* the handler without a credential check: a hard-coded key it never uses
NoCredentialCheck(req, c, t) ==
    IF ~req.config.present THEN Out(Catch(ParseId(req)), c)
    ELSE LookupAndGo(ParseId(req), c, t)

\* the handler from its invocation to its first await or return
HandlerEnter(v, type, id, config, c, t) ==
    LET req == [IdleReq EXCEPT !.type = type, !.id = id, !.config = config]
    IN  IF v = "part_001" THEN CredentialCheck(req, c, t)
        ELSE NoCredentialCheck(req, c, t)

\* the result stored whether or not it is empty
FinishAlwaysStores(req, c, t) ==
    Out(Return(req, req.streams), setCache(c, req.cacheKey, req.streams, t))

\* if (streams.length > 0) setCache(cacheKey, streams); return { streams }
Finish(req, c, t) ==
    Out(Return(req, req.streams),
        IF Len(req.streams) > 0 THEN setCache(c, req.cacheKey, req.streams, t) ELSE c)

\* the loop running over every candidate, without the slice
SlicedNot(torrents) == torrents

\* torrents.slice(0, 15)
Sliced(torrents) ==
    SubSeq(torrents, 1, IF Len(torrents) < SliceLimit THEN Len(torrents) ELSE SliceLimit)

\* the for loop is entered with the search results: first availability call
EnterLoop(req, torrents, c, t) ==
    LET r1 == [req EXCEPT !.torrents = torrents]
    IN  IF Len(Sliced(torrents)) = 0 THEN Finish(r1, c, t)
        ELSE Out([r1 EXCEPT !.pc = "check", !.i = 1, !.calls = @ \cup {"rd"}], c)

\* directSearcher.search(...) starts the three adapters, then awaits them all
StartDirect(req) ==
    [req EXCEPT !.pc = "direct",
                !.settled = [t \in TrackerSet |-> Pending],
                !.calls = @ \cup TrackerSet]

\* after getMetadata: Jackett first when enabled, else the direct search
AfterMetadata(req, env) ==
    IF JackettEnabled(env)
    THEN [req EXCEPT !.pc = "jackett", !.calls = @ \cup {"jackett"}]
    ELSE StartDirect(req)

\* the direct search run whatever Jackett returned
AfterJackettAlwaysDirect(req, found, c, t) ==
    Out(StartDirect([req EXCEPT !.jackett = found]), c)

\* after jackettSearcher.search: fall back to the direct search only on []
AfterJackett(req, found, c, t) ==
    LET r1 == [req EXCEPT !.jackett = found]
    IN  IF Len(found) = 0 THEN Out(StartDirect(r1), c)
        ELSE EnterLoop(r1, found, c, t)

\* the loop body running the episode matcher whatever the media type
ProcessCandidateAlwaysMatches(req, torrent, rdInfo) ==
    IF ~rdInfo.available THEN req.streams
    ELSE LET found == findVideoFile(rdInfo.files, req.season, req.episode)
         IN  IF found.threw THEN req.streams
             ELSE Append(req.streams,
                         Stream(torrent.source, torrent.title, torrent.infoHash,
                                found.value))

\* the loop body emitting a stream whatever the provider answered
ProcessCandidateIgnoresAvailability(req, torrent, rdInfo) ==
    Append(req.streams, Stream(torrent.source, torrent.title, torrent.infoHash, Null))

\* the body of one loop iteration, given the provider's answer
ProcessCandidate(req, torrent, rdInfo) ==
    IF ~rdInfo.available THEN req.streams
    ELSE IF req.type = "series"
         THEN LET found == findVideoFile(rdInfo.files, req.season, req.episode)
              IN  IF found.threw THEN req.streams
                  ELSE Append(req.streams,
                              Stream(torrent.source, torrent.title, torrent.infoHash,
                                     found.value))
         ELSE Append(req.streams,
                     Stream(torrent.source, torrent.title, torrent.infoHash, Null))

\* the loop without its inner try/catch: an exception in one iteration
\* reaches the handler's outer catch
AfterCheckNoInnerCatch(req, rdInfo, c, t) ==
    IF /\ rdInfo.available
       /\ req.type = "series"
       /\ findVideoFile(rdInfo.files, req.season, req.episode).threw
    THEN Out(Catch(req), c)
    ELSE LET r1 == [req EXCEPT
                      !.streams = ProcessCandidate(req, req.torrents[req.i], rdInfo),
                      !.checks = Append(@, rdInfo.available)]
         IN  IF req.i < Len(Sliced(req.torrents))
             THEN Out([r1 EXCEPT !.i = @ + 1], c)
             ELSE Finish(r1, c, t)

\* one iteration completes: the next availability call, or the end of the loop
AfterCheck(req, rdInfo, c, t) ==
    LET r1 == [req EXCEPT !.streams = ProcessCandidate(req, req.torrents[req.i], rdInfo),
                          !.checks = Append(@, rdInfo.available)]
    IN  IF req.i < Len(Sliced(req.torrents))
        THEN Out([r1 EXCEPT !.i = @ + 1], c)
        ELSE Finish(r1, c, t)

(***************************************************************************)
(* The external services.  A world fixes what Jackett, the three trackers  *)
(* and Real-Debrid answer when they answer at all, which of them never    *)
(* respond (silent), whether Jackett is configured in the process          *)
(* environment, and how many requests the host sends.                      *)
(***************************************************************************)
Btih(n, case) == Hash(<<"btih">> \o NatToString(n), case)

File(path) == [hasPath |-> TRUE, path |-> path]

FileE01 == File(<<"S","0","1","E","0","1",".","m","k","v">>)
FileE02 == File(<<"S","0","1","E","0","2",".","M","K","V">>)
FileTxt == File(<<"r","e","a","d","m","e",".","t","x","t">>)

SeasonPack == <<FileE01, FileE02, FileTxt>>

\* one Real-Debrid entry: the key the response uses and its cached variants
RdEntry(key, rd) == [key |-> key, rd |-> rd]

Hit(title, magnet, link, seeders, tracker) ==
    [Title |-> title, MagnetUri |-> magnet, Link |-> link, Seeders |-> seeders,
     Tracker |-> tracker]

Row(title, href, seeders) ==
    [hasLink |-> TRUE, title |-> title, href |-> href, seeders |-> seeders]

HeaderRow == [hasLink |-> FALSE, title |-> "", href |-> NoMagnet, seeders |-> 0]

Topic(title, topicId, seeders) ==
    [hasTitle |-> TRUE, title |-> title, topicId |-> topicId, seeders |-> seeders]

EnvOn == [JACKETT_URL |-> TRUE, JACKETT_API_KEY |-> TRUE]
EnvOff == [JACKETT_URL |-> TRUE, JACKETT_API_KEY |-> FALSE]

\* Jackett configured: two indexers report the same torrent, one hit has no magnet
WorldJackett ==
    [requests |-> Cardinality(Slots),
     silent |-> {},
     env |-> EnvOn,
     hits |-> <<Hit("A 1080p", Magnet("btih40", Btih(1, "lower")), TRUE, 50, "rutracker"),
                Hit("A 1080p", Magnet("btih40", Btih(1, "upper")), FALSE, 40, "rutor"),
                Hit("B", NoMagnet, TRUE, 30, "kinozal")>>,
     rows |-> [t \in TrackerSet |->
                 IF t = "Rutor"
                 THEN <<HeaderRow, Row("C", Magnet("btih40", Btih(3, "lower")), 9)>>
                 ELSE <<>>],
     data |-> {RdEntry(Btih(1, "upper"), <<SeasonPack>>),
               RdEntry(Btih(3, "upper"), <<SeasonPack>>)}]

\* Jackett configured but finds nothing: the trackers are scraped
WorldFallback ==
    [requests |-> Cardinality(Slots),
     silent |-> {},
     env |-> EnvOn,
     hits |-> <<Hit("B", NoMagnet, TRUE, 30, "kinozal")>>,
     rows |-> [t \in TrackerSet |->
                 IF t = "Rutor"
                 THEN <<HeaderRow,
                        Row("C", Magnet("btih40", Btih(3, "lower")), 5),
                        Row("D", Magnet("other", NoHash), 8)>>
                 ELSE IF t = "RuTracker" THEN <<Topic("E", <<"1","0","1">>, 7)>>
                 ELSE <<Topic("F", <<"1","0","1">>, 7), Topic("G", <<>>, 2)>>],
     data |-> {RdEntry(Btih(3, "upper"), <<SeasonPack>>),
               RdEntry(generateDummyHash(<<"1","0","1">>), <<>>)}]

\* Jackett not configured; Real-Debrid answers under lower-case keys
WorldLowerKeys ==
    [requests |-> Cardinality(Slots),
     silent |-> {},
     env |-> EnvOff,
     hits |-> <<>>,
     rows |-> [t \in TrackerSet |->
                 IF t = "Rutor"
                 THEN <<HeaderRow, Row("C", Magnet("btih40", Btih(3, "upper")), 5)>>
                 ELSE <<>>],
     data |-> {RdEntry(Btih(3, "lower"), <<SeasonPack>>)}]

\* Jackett not configured; Rutor lists more torrents than the handler checks
LongLen == SliceLimit + 2

WorldLong ==
    [requests |-> 1,
     silent |-> {},
     env |-> EnvOff,
     hits |-> <<>>,
     rows |-> [t \in TrackerSet |->
                 IF t = "Rutor"
                 THEN <<HeaderRow>> \o
                      [k \in 1..LongLen |->
                          Row("L", Magnet("btih40", Btih(k, "lower")), 100 - k)]
                 ELSE <<>>],
     data |-> {RdEntry(Btih(k, "upper"), <<<<FileE01>>>>) :
                  k \in {1, SliceLimit, SliceLimit + 1, SliceLimit + 2}}]

Worlds == {WorldJackett, WorldFallback, WorldLowerKeys, WorldLong}

(***************************************************************************)
(* The requests the host sends.                                            *)
(***************************************************************************)
Types == {"movie", "series"}

Ids == {<<"t","t","1">>, <<"t","t","1",":","1",":","2">>}

KeyA1 == <<"r","d","k","e","y","0","0","A","1">>
KeyA2 == <<"r","d","k","e","y","0","0","A","2">>
KeyB == <<"r","d","k","e","y","0","0","B","1">>

Configs ==
    {NoConfig, EmptyConfig, StringKey(<<>>), NumberKey,
     StringKey(KeyA1), StringKey(KeyA2), StringKey(KeyB)}

\* every configuration for the plain movie request, every type and id with a key
Requests ==
    {[type |-> "movie", id |-> <<"t","t","1">>, config |-> c] : c \in Configs}
    \cup {[type |-> ty, id |-> id, config |-> StringKey(KeyA1)] : ty \in Types, id \in Ids}

(***************************************************************************)
(* Initial state and actions.                                              *)
(***************************************************************************)
Variants == {"part_000", "part_001"}

\* the build with the credential check runs in every world, the other in one
Deployments ==
    {<<"part_001", w>> : w \in Worlds} \cup {<<"part_000", WorldJackett>>}

\* no helper function has been called directly
NoCall == [op |-> "none"]

Init ==
    /\ \E d \in Deployments : variant = d[1] /\ world = d[2]
    /\ now = 0
    /\ ticks = 0
    /\ faults = 0
    /\ cache = << >>
    /\ reqs = [r \in Slots |-> IdleReq]
    /\ call = NoCall

\* the timeout an external call is made with, in milliseconds: getMetadata
\* 5000, Jackett 15000, a tracker page this.timeout = 10000; the Real-Debrid
\* client is created without one, which for axios is 0: no timeout
Timeout(service) ==
    CASE service = "metadata" -> 5000
      [] service = "jackett" -> 15000
      [] service \in TrackerSet -> 10000
      [] service = "rd" -> 0

\* an external call settles: the service answers, or the call fails within the
\* fault budget; the call to a service that never responds settles only by
\* its timeout, as a failure, if it has one
Answers(service, ok) ==
    IF service \in world.silent THEN ~ok /\ Timeout(service) > 0
    ELSE ok \/ faults < MaxFaults

CountFault(service, ok) ==
    faults' = IF ok \/ service \in world.silent THEN faults ELSE faults + 1

Apply(r, out) ==
    /\ reqs' = [reqs EXCEPT ![r] = out.req]
    /\ cache' = out.cache

\* the host invokes the handler: it runs to its first await or to its return
Invoke(r) ==
    /\ reqs[r].pc = "idle"
    /\ r <= world.requests
    /\ \A q \in Slots : q < r => reqs[q].pc # "idle"
    /\ \E args \in Requests :
          Apply(r, HandlerEnter(variant, args.type, args.id, args.config, cache, now))
    /\ UNCHANGED <<variant, world, now, ticks, faults, call>>

\* getMetadata settles (it catches its own failures); the search begins
MetadataSettles(r) ==
    /\ reqs[r].pc = "metadata"
    /\ \E ok \in BOOLEAN :
          /\ Answers("metadata", ok)
          /\ CountFault("metadata", ok)
    /\ Apply(r, Out(AfterMetadata(reqs[r], world.env), cache))
    /\ UNCHANGED <<variant, world, now, ticks, call>>

\* jackettSearcher.search settles
JackettSettles(r) ==
    /\ reqs[r].pc = "jackett"
    /\ \E ok \in BOOLEAN :
          /\ Answers("jackett", ok)
          /\ CountFault("jackett", ok)
          /\ Apply(r, AfterJackett(reqs[r],
                                   JackettSearch(world.env, [ok |-> ok, hits |-> world.hits]),
                                   cache, now))
    /\ UNCHANGED <<variant, world, now, ticks, call>>

\* one of the tracker adapters started by search() settles
AdapterSettles(r) ==
    /\ reqs[r].pc = "direct"
    /\ \E t \in TrackerSet, ok \in BOOLEAN :
          /\ reqs[r].settled[t].status = "pending"
          /\ Answers(t, ok)
          /\ CountFault(t, ok)
          /\ reqs' = [reqs EXCEPT
                        ![r].settled[t] = SearchTracker(t, [ok |-> ok, rows |-> world.rows[t]]),
                        ![r].fetched = IF ok THEN @ \cup {t} ELSE @]
    /\ UNCHANGED <<variant, world, now, ticks, cache, call>>

\* search() returning as soon as one adapter has settled
DirectSettlesOnFirst(r) ==
    /\ reqs[r].pc = "direct"
    /\ \E t \in TrackerSet : reqs[r].settled[t].status # "pending"
    /\ Apply(r, EnterLoop(reqs[r],
                          SearchResult([k \in 1..Len(Trackers) |-> reqs[r].settled[Trackers[k]]]),
                          cache, now))
    /\ UNCHANGED <<variant, world, now, ticks, faults, call>>

\* Promise.allSettled resolves: search() returns and the loop is entered
DirectSettles(r) ==
    /\ reqs[r].pc = "direct"
    /\ \A t \in TrackerSet : reqs[r].settled[t].status # "pending"
    /\ Apply(r, EnterLoop(reqs[r],
                          SearchResult([k \in 1..Len(Trackers) |-> reqs[r].settled[Trackers[k]]]),
                          cache, now))
    /\ UNCHANGED <<variant, world, now, ticks, faults, call>>

\* checkAvailability for the current candidate settles
CheckSettles(r) ==
    /\ reqs[r].pc = "check"
    /\ \E ok \in BOOLEAN :
          /\ Answers("rd", ok)
          /\ CountFault("rd", ok)
          /\ Apply(r, AfterCheck(reqs[r],
                                 checkAvailability(reqs[r].torrents[reqs[r].i].infoHash,
                                                   [ok |-> ok, data |-> world.data]),
                                 cache, now))
    /\ UNCHANGED <<variant, world, now, ticks, call>>

\* the clock is observed at half-TTL steps: an entry is read at age 0, TTL/2,
\* exactly TTL and beyond
TickStep == CACHE_TTL \div 2

\* time passes
Tick ==
    /\ ticks < MaxTicks
    /\ now' = now + TickStep
    /\ ticks' = ticks + 1
    /\ UNCHANGED <<variant, world, faults, cache, reqs, call>>

Next ==
    \/ \E r \in Slots : Invoke(r)
    \/ \E r \in Slots : MetadataSettles(r)
    \/ \E r \in Slots : JackettSettles(r)
    \/ \E r \in Slots : AdapterSettles(r)
    \/ \E r \in Slots : DirectSettles(r)
    \/ \E r \in Slots : CheckSettles(r)
    \/ Tick

Spec == Init /\ [][Next]_vars

(***************************************************************************)
(* The same handler when services may never respond.  Node's event loop    *)
(* runs every callback that is ready: a call that can settle (by an        *)
(* answer, an error or its timeout) does settle, and the handler goes on.  *)
(***************************************************************************)
\* no service silent; Real-Debrid silent; every service but Real-Debrid silent
SilentChoices == {{}, {"rd"}, {"metadata", "jackett"} \cup TrackerSet}

LiveWorlds ==
    {[w EXCEPT !.silent = quiet] : w \in {WorldJackett, WorldFallback}, quiet \in SilentChoices}

LiveInit ==
    /\ variant = "part_001"
    /\ world \in LiveWorlds
    /\ now = 0
    /\ ticks = 0
    /\ faults = 0
    /\ cache = << >>
    /\ reqs = [r \in Slots |-> IdleReq]
    /\ call = NoCall

Fairness ==
    \A r \in Slots :
        /\ WF_vars(MetadataSettles(r))
        /\ WF_vars(JackettSettles(r))
        /\ WF_vars(AdapterSettles(r))
        /\ WF_vars(DirectSettles(r))
        /\ WF_vars(CheckSettles(r))

LiveSpec == LiveInit /\ [][Next]_vars /\ Fairness

(***************************************************************************)
(* Direct calls of the helper functions, each on inputs drawn from a       *)
(* bounded set: `call` holds the function called, its arguments and what   *)
(* it returned.  One call is made per behaviour.                           *)
(***************************************************************************)
\* longest torrent list handed to removeDuplicates and sortByPriority
MaxList == 3

\* longest file list handed to the episode matchers (the three-file list of
\* the documentation's example comes on top)
MaxFiles == 2

\* the sequences over pool of length at most n
Lists(pool, n) == UNION {[1..m -> pool] : m \in 0..n}

\* torrents of two contents, each hash written in either case, from two
\* trackers, and one torrent without a hash
DedupPool ==
    {Torrent(Btih(n, case), 5, "1080p", source) :
        n \in {1, 2}, case \in {"lower", "upper"}, source \in {"Rutor", "Kinozal"}}
    \cup {Torrent(NoHash, 5, "1080p", "Rutor")}

\* seeder counts 3, 8, 10, 11, 13 and 21 apart
SortSeeders == {0, 10, 13, 21}

\* the qualities of the priority table, and two outside it
SortQualities ==
    {"4K", "REMUX", "2160p", "1080p", "BluRay", "WEB-DL", "720p", "WEBRip", "HDTV",
     "480p", "DVDRip", ""}

\* every pair over the whole table; longer lists over three qualities
SortInputs ==
    [1..2 -> {Torrent(NoHash, n, quality, "Rutor") :
                 n \in SortSeeders, quality \in SortQualities}]
    \cup Lists({Torrent(NoHash, n, quality, "Rutor") :
                   n \in SortSeeders, quality \in {"4K", "1080p", "720p"}}, MaxList)

\* how releases name the file of season s, episode e
Families == {"SxxEyy", "NxMM", "SeasonEpisode", "SezonSeriya"}

NamedFor(family, s, e) ==
    CASE family = "SxxEyy" ->
            <<"S">> \o PadStart2(NatToString(s)) \o <<"E">> \o PadStart2(NatToString(e))
                \o <<".","m","k","v">>
      [] family = "NxMM" ->
            NatToString(s) \o <<"x">> \o PadStart2(NatToString(e)) \o <<".","m","p","4">>
      [] family = "SeasonEpisode" ->
            <<"S","e","a","s","o","n"," ">> \o NatToString(s)
                \o <<" ","E","p","i","s","o","d","e"," ">> \o NatToString(e)
                \o <<".","a","v","i">>
      [] family = "SezonSeriya" ->
            Sezon \o <<" ">> \o NatToString(s) \o <<" ">> \o Seriya \o <<" ">>
                \o NatToString(e) \o <<".","m","k","v">>

EpisodeNumbers == {1, 2, 10}

FileRandom == File(<<"r","a","n","d","o","m",".","m","k","v">>)
FileMov == File(<<"S","0","1","E","0","2",".","m","o","v">>)
FileCompact == File(<<"s","h","o","w",".","1","0","2",".","m","k","v">>)
FileNoPath == [hasPath |-> FALSE, path |-> <<>>]

FilePool ==
    {File(NamedFor(family, 1, e)) : family \in Families, e \in EpisodeNumbers}
    \cup {FileTxt, FileRandom, FileMov, FileCompact, FileNoPath}

\* ["Show.S01E01.mkv", "Show.S01E02.mkv", "sample.txt"]
ExampleFiles ==
    <<File(<<"S","h","o","w",".","S","0","1","E","0","1",".","m","k","v">>),
      File(<<"S","h","o","w",".","S","0","1","E","0","2",".","m","k","v">>),
      File(<<"s","a","m","p","l","e",".","t","x","t">>)>>

FileLists == Lists(FilePool, MaxFiles) \cup {ExampleFiles}

\* season and episode as the handler passes them: parsed numbers, NaN for a
\* missing part, null for an id without parts
EpisodeArgs ==
    {[season |-> Num(1), episode |-> Num(e)] : e \in EpisodeNumbers}
    \cup {[season |-> Num(1), episode |-> NaN], [season |-> Null, episode |-> Null]}

TitleTokens ==
    {<<"2","1","6","0","p">>, <<"4","k">>, <<"u","h","d">>, <<"1","0","8","0","p">>,
     <<"7","2","0","p">>, <<"4","8","0","p">>, <<"r","e","m","u","x">>,
     <<"b","l","u","r","a","y">>, <<"b","d","r","i","p">>, <<"b","r","r","i","p">>,
     <<"w","e","b","-","d","l">>, <<"w","e","b","d","l">>,
     <<"w","e","b","r","i","p">>, <<"h","d","t","v">>, <<"d","v","d","r","i","p">>,
     <<"c","a","m">>, <<"c","a","m","r","i","p">>, <<"t","s">>,
     <<"t","e","l","e","s","y","n","c">>, <<"h","e","v","c">>, <<"h","2","6","5">>,
     <<"x","2","6","5">>, <<"h","2","6","4">>, <<"x","2","6","4">>, <<"a","v","c">>,
     <<"a","v","1">>, <<"a","t","m","o","s">>, <<"t","r","u","e","h","d">>,
     <<"d","t","s","-","h","d">>, <<"d","t","s","-","m","a">>, <<"d","t","s">>,
     <<"d","d","5",".","1">>, <<"a","c","3">>, <<"a","a","c">>, <<"h","d","r">>,
     <<"h","d","r","1","0">>, <<"d","o","l","b","y"," ","v","i","s","i","o","n">>,
     <<"d","v">>, <<"M","o","v","i","e">>, <<"N","a","m","e">>, <<"2","0","2","0">>,
     <<"B","l","u","R","a","y">>, <<"R","E","M","U","X">>, <<"H","D","R">>,
     <<"X","2","6","4">>}

\* titles of no, one or two tokens, and "Movie.Name.2020"
Titles ==
    {<<>>}
    \cup TitleTokens
    \cup {a \o <<".">> \o b : a, b \in TitleTokens}
    \cup {<<"M","o","v","i","e",".","N","a","m","e",".","2","0","2","0">>}

\* most rows of a result page, and most hits of a Jackett response
MaxRows == 2

HexDigits == <<"0","1","2","3","4","5","6","7","8","9","a","b","c","d","e","f">>

\* n hexadecimal characters, lower-case
HexRun(seed, n) == [k \in 1..n |-> HexDigits[((k * seed) % 16) + 1]]

\* every second letter upper-cased
MixedCase(s) == [k \in 1..Len(s) |-> IF k % 2 = 0 THEN UpperChar(s[k]) ELSE s[k]]

Dn == <<"&","d","n","=","x">>

\* magnet:?xt=urn:btih:<40 hex>&dn=x, the hash in lower, mixed and upper case
MagnetLower == MagnetPrefix \o HexRun(3, HashLen) \o Dn
MagnetMixed == MagnetPrefix \o MixedCase(HexRun(7, HashLen)) \o Dn
MagnetUpper == MagnetPrefix \o ToUpperCaseChars(HexRun(3, HashLen)) \o Dn

\* the scheme written in upper case: magnet:?xt=urn:BTIH:<40 hex>
MagnetUpperScheme ==
    <<"m","a","g","n","e","t",":","?","x","t","=","u","r","n",":","B","T","I","H",":">>
        \o HexRun(5, HashLen)

\* the hash not the first parameter: magnet:?dn=x&xt=urn:btih:<40 hex>
MagnetDnFirst ==
    <<"m","a","g","n","e","t",":","?","d","n","=","x","&","x","t","=",
      "u","r","n",":","b","t","i","h",":">> \o HexRun(11, HashLen)

\* one hexadecimal character short of a hash, a 64-character hash, and a
\* base32 hash of 32 characters
MagnetShort == MagnetPrefix \o HexRun(3, HashLen - 1) \o Dn
MagnetLong == MagnetPrefix \o HexRun(9, HashLen + 24) \o Dn
MagnetBase32 == MagnetPrefix \o [k \in 1..32 |-> LowerLetters[7 + (k % 19)]] \o Dn

\* a link that is no magnet
HttpLink == <<"h","t","t","p",":","/","/","x","/","t",".","t","o","r","r","e","n","t">>

MagnetPool ==
    {MagnetLower, MagnetMixed, MagnetUpper, MagnetUpperScheme, MagnetDnFirst,
     MagnetShort, MagnetLong, MagnetBase32}

\* hits with a magnet, with a download link only, and with neither
HitPool ==
    {Hit("T", m, FALSE, 5, "rutor") : m \in MagnetPool}
    \cup {Hit("T", <<>>, TRUE, 5, "kinozal"), Hit("T", <<>>, FALSE, 5, "kinozal")}

\* the hit with its MagnetUri read by JackettSearcher.search
JackettItem(hit) == [hit EXCEPT !.MagnetUri = JackettMagnetUri(@)]

\* rows of the Rutor table: with a magnet, with another link, without a link
RutorRowPool ==
    {Row("T", m, 5) : m \in MagnetPool \cup {HttpLink, <<>>}} \cup {HeaderRow}

\* the row with its href read by searchRutor
RutorItem(row) == IF row.hasLink THEN [row EXCEPT !.href = RutorHref(@)] ELSE row

\* rows of RuTracker and Kinozal: with a topic id, without one, without a
\* title link
TopicPool ==
    {Topic("E", <<"1","0","1">>, 7), Topic("F", <<"7">>, 0), Topic("G", <<>>, 2),
     [hasTitle |-> FALSE, title |-> "", topicId |-> <<>>, seeders |-> 0]}

\* the pages a tracker may answer with
Pages(tracker) ==
    IF tracker = "Rutor"
    THEN {<<HeaderRow>> \o rows : rows \in Lists(RutorRowPool, MaxRows)}
    ELSE Lists(TopicPool, MaxRows)

\* the page as the adapter reads it
ReadPage(tracker, rows) ==
    IF tracker = "Rutor" THEN [k \in 1..Len(rows) |-> RutorItem(rows[k])] ELSE rows

\* the keys a Real-Debrid response may use: one hash in either case, another hash
RdKeys == {Btih(1, "upper"), Btih(1, "lower"), Btih(2, "upper")}

\* responses: an object with any of the keys, each with or without variants
RdResponses ==
    {{RdEntry(key, rd[key]) : key \in keys} :
        <<keys, rd>> \in UNION {{keys} \X [keys -> {<<>>, <<SeasonPack>>}] :
                                   keys \in SUBSET RdKeys}}

Called(op, args, out) == [op |-> op, args |-> args, out |-> out]

HandlerIdle ==
    UNCHANGED <<variant, world, now, ticks, faults, cache, reqs>>

CallRemoveDuplicates ==
    /\ call = NoCall
    /\ \E torrents \in Lists(DedupPool, MaxList) :
          call' = Called("removeDuplicates", torrents, removeDuplicates(torrents))
    /\ HandlerIdle

CallSortByPriority ==
    /\ call = NoCall
    /\ \E torrents \in SortInputs :
          call' = Called("sortByPriority", torrents, sortByPriority(torrents))
    /\ HandlerIdle

CallFindEpisodeFile ==
    /\ call = NoCall
    /\ \E files \in FileLists, a \in EpisodeArgs :
          call' = Called("findEpisodeFile",
                         [files |-> files, season |-> a.season, episode |-> a.episode],
                         Returned(findEpisodeFile(files, a.season, a.episode)))
    /\ HandlerIdle

CallFindVideoFile ==
    /\ call = NoCall
    /\ \E files \in FileLists, a \in EpisodeArgs :
          call' = Called("findVideoFile",
                         [files |-> files, season |-> a.season, episode |-> a.episode],
                         findVideoFile(files, a.season, a.episode))
    /\ HandlerIdle

CallParseQuality ==
    /\ call = NoCall
    /\ \E title \in Titles :
          call' = Called("parseQuality", title, parseQuality(title))
    /\ HandlerIdle

\* JackettSearcher.search with Jackett configured
CallJackettSearch ==
    /\ call = NoCall
    /\ \E hits \in Lists(HitPool, MaxRows), ok \in BOOLEAN :
          call' = Called("JackettSearcher.search", [ok |-> ok, rows |-> hits],
                         JackettSearch(EnvOn,
                                       [ok |-> ok,
                                        hits |-> [k \in 1..Len(hits) |-> JackettItem(hits[k])]]))
    /\ HandlerIdle

\* searchRutor, searchRutracker or searchKinozal
CallSearchTracker ==
    /\ call = NoCall
    /\ \E t \in TrackerSet, ok \in BOOLEAN :
          \E rows \in Pages(t) :
             call' = Called("searchTracker", [tracker |-> t, ok |-> ok, rows |-> rows],
                            SearchTracker(t, [ok |-> ok, rows |-> ReadPage(t, rows)]).value)
    /\ HandlerIdle

\* rdClient.checkAvailability(infoHash)
CallCheckAvailability ==
    /\ call = NoCall
    /\ \E infoHash \in {Btih(1, "upper"), Btih(1, "lower")}, ok \in BOOLEAN :
          \E data \in RdResponses :
             call' = Called("checkAvailability",
                            [infoHash |-> infoHash, ok |-> ok, data |-> data],
                            checkAvailability(infoHash, [ok |-> ok, data |-> data]))
    /\ HandlerIdle

UtilsInit ==
    /\ variant = "part_001"
    /\ world = WorldJackett
    /\ now = 0
    /\ ticks = 0
    /\ faults = 0
    /\ cache = << >>
    /\ reqs = [r \in Slots |-> IdleReq]
    /\ call = NoCall

UtilsNext ==
    \/ CallRemoveDuplicates
    \/ CallSortByPriority
    \/ CallFindEpisodeFile
    \/ CallFindVideoFile
    \/ CallParseQuality
    \/ CallJackettSearch
    \/ CallSearchTracker
    \/ CallCheckAvailability

UtilsSpec == UtilsInit /\ [][UtilsNext]_vars

(***************************************************************************)
(* Vocabulary of the properties.                                           *)
(***************************************************************************)
\* r has passed the credential check and built its cache key
Keyed(r) == reqs[r].pc # "idle" /\ reqs[r].cacheKey # <<>>

\* r returned what its own resolver loop produced (a cache miss run to the end)
Resolved(r) == reqs[r].pc = "done" /\ ~reqs[r].hit /\ reqs[r].cacheKey # <<>>

\* r stored its streams in the cache when it returned
Wrote(r) == Resolved(r) /\ Len(reqs[r].result) > 0

\* the step invokes the handler for r
Invokes(r) == reqs[r].pc = "idle" /\ reqs'[r].pc # "idle"

\* the step makes r return from its resolver loop
Resolves(r) ==
    /\ reqs[r].pc \in {"jackett", "direct", "check"}
    /\ reqs'[r].pc = "done"

\* the request carries no requester credential
NoCredential(config) == ~config.present \/ KeyFalsy(config)

Range(s) == {s[k] : k \in 1..Len(s)}

Count(s, x) == Cardinality({k \in 1..Len(s) : s[k] = x})

\* a and b hold the same elements the same number of times
SameBag(a, b) ==
    /\ Len(a) = Len(b)
    /\ \A x \in Range(a) \cup Range(b) : Count(a, x) = Count(b, x)

\* C1: two requests for the same media id with different credentials never
\* share a cached Stream list: none is served, as a cache hit, the list the
\* other one stored.
C1_NoSharedStreams ==
    \A r, q \in Slots :
        (/\ r # q
         /\ Wrote(q)
         /\ reqs[r].id = reqs[q].id
         /\ reqs[r].config # reqs[q].config)
        => ~(reqs[r].hit /\ reqs[r].result = reqs[q].result)

\* C2: a lookup of a key whose entry was stored at most CACHE_TTL ago returns
\* the stored list and leaves the entry as it was (a hit does not renew it);
\* a lookup after more than CACHE_TTL misses and removes the entry; and an
\* entry is stamped with the time of its setCache.
C2_Lookup(r) ==
    LET k == reqs'[r].cacheKey
    IN  IF k \notin DOMAIN cache THEN ~reqs'[r].hit /\ cache' = cache
        ELSE IF now - cache[k].timestamp <= CACHE_TTL
             THEN /\ reqs'[r].hit
                  /\ reqs'[r].result = cache[k].data
                  /\ cache' = cache
             ELSE /\ ~reqs'[r].hit
                  /\ k \notin DOMAIN cache'
                  /\ \A j \in DOMAIN cache \ {k} : j \in DOMAIN cache' /\ cache'[j] = cache[j]

C2_Stored(r) ==
    Len(reqs'[r].result) > 0 =>
        /\ reqs'[r].cacheKey \in DOMAIN cache'
        /\ cache'[reqs'[r].cacheKey] = [data |-> reqs'[r].result, timestamp |-> now]

C2_CacheTTL ==
    [][\A r \in Slots :
          /\ (Invokes(r) /\ reqs'[r].cacheKey # <<>>) => C2_Lookup(r)
          /\ Resolves(r) => C2_Stored(r)]_vars

\* C2 witness: an entry one request stored has been evicted by another
\* request's lookup after the TTL: that request missed and is resolving anew.
C2_Witness ==
    \E r, q \in Slots :
        /\ Wrote(q)
        /\ reqs[r].pc = "metadata"
        /\ reqs[r].cacheKey = reqs[q].cacheKey
        /\ reqs[r].cacheKey \notin DOMAIN cache
        /\ now > CACHE_TTL

\* C3 as claimed: when a resolution ends with zero streams, the cache holds
\* no entry for its key.
C3_NoEntryAfterEmpty ==
    [][\A r \in Slots :
          (Resolves(r) /\ reqs'[r].result = <<>>) =>
              reqs'[r].cacheKey \notin DOMAIN cache']_vars

\* C3 amended: a resolution that ends with zero streams leaves the cache
\* exactly as it was, and an entry is only ever written by a resolution
\* returning a non-empty list, which is the list written.
C3_WriteOnlyNonEmpty ==
    [][/\ \A r \in Slots :
             (Resolves(r) /\ reqs'[r].result = <<>>) => cache' = cache
       /\ \A k \in DOMAIN cache' :
             (k \notin DOMAIN cache \/ cache'[k] # cache[k]) =>
                 \E r \in Slots :
                     /\ Resolves(r)
                     /\ reqs'[r].cacheKey = k
                     /\ Len(reqs'[r].result) > 0
                     /\ cache'[k].data = reqs'[r].result]_vars

\* C3 witness: a request went through the availability loop, ended with zero
\* streams, and its key has no entry.
C3_Witness ==
    \E r \in Slots :
        /\ Resolved(r)
        /\ "rd" \in reqs[r].calls
        /\ reqs[r].result = <<>>
        /\ reqs[r].cacheKey \notin DOMAIN cache

\* C4: a request served from the cache made no external call (no metadata
\* lookup, no Jackett or tracker search, no availability check) and returns
\* the list another request resolved and stored under the same key.
C4_HitShortCircuits ==
    \A r \in Slots :
        reqs[r].hit =>
            /\ reqs[r].pc = "done"
            /\ reqs[r].calls = {}
            /\ \E q \in Slots \ {r} :
                  /\ Wrote(q)
                  /\ reqs[q].cacheKey = reqs[r].cacheKey
                  /\ reqs[q].result = reqs[r].result

\* C4 witness: a request was served from the cache.
C4_Witness == \E r \in Slots : reqs[r].hit /\ Len(reqs[r].result) > 0

\* C5: a request without a requester credential (config missing, or rdApiKey
\* missing or empty) returns the "configuration required" entry, with no cache
\* lookup and no external call.
C5_ConfigRequired ==
    \A r \in Slots :
        (reqs[r].pc # "idle" /\ NoCredential(reqs[r].config)) =>
            /\ reqs[r].pc = "done"
            /\ reqs[r].result = ConfigRequiredStreams
            /\ reqs[r].cacheKey = <<>>
            /\ reqs[r].calls = {}

\* r is suspended at an await whose call has been issued
Awaiting(r) ==
    \/ reqs[r].pc = "metadata"
    \/ reqs[r].pc = "jackett" /\ JackettEnabled(world.env)
    \/ reqs[r].pc = "direct" /\ \A t \in TrackerSet : reqs[r].settled[t].status # "none"
    \/ reqs[r].pc = "check" /\ reqs[r].i \in 1..Len(Sliced(reqs[r].torrents))

C7_NoDuplicateStreams ==
    \A r \in Slots :
        Resolved(r) =>
            \A j, k \in 1..Len(reqs[r].result) :
                (/\ j # k
                 /\ ~reqs[r].result[j].notFound
                 /\ ~reqs[r].result[k].notFound)
                => ToUpperCase(reqs[r].result[j].infoHash)
                       # ToUpperCase(reqs[r].result[k].infoHash)

\* the candidates a tracker's page yields
PageCandidates(t) ==
    IF t = "Rutor" THEN RutorParse(world.rows[t]) ELSE TopicParse(world.rows[t], t)

\* r is past directSearcher.search
DirectDone(r) == TrackerSet \subseteq reqs[r].calls /\ reqs[r].pc \in {"check", "done"}

JackettDone(r) == reqs[r].pc \in {"direct", "check"} \/ Resolved(r)

\* C9: the tracker adapters are called iff Jackett is not enabled or returned
\* no candidate, and never while Jackett is still pending; when Jackett is
\* enabled and returns candidates, the candidate list is exactly its results.
C9_JackettFirst ==
    \A r \in Slots :
        /\ reqs[r].pc \in {"metadata", "jackett"} => reqs[r].calls \cap TrackerSet = {}
        /\ JackettDone(r) =>
              /\ (TrackerSet \subseteq reqs[r].calls)
                    <=> (~JackettEnabled(world.env) \/ reqs[r].jackett = <<>>)
              /\ (reqs[r].calls \cap TrackerSet # {}) => TrackerSet \subseteq reqs[r].calls
              /\ ("jackett" \in reqs[r].calls) <=> JackettEnabled(world.env)
              /\ (JackettEnabled(world.env) /\ reqs[r].jackett # <<>>) =>
                    /\ reqs[r].torrents = JackettResults(world.hits)
                    /\ reqs[r].jackett = JackettResults(world.hits)

\* C9 witness: Jackett returned candidates and the request finished without
\* calling any tracker adapter.
C9_Witness ==
    \E r \in Slots :
        /\ Resolved(r)
        /\ "jackett" \in reqs[r].calls
        /\ reqs[r].calls \cap TrackerSet = {}
        /\ Len(reqs[r].torrents) > 0

\* the streams from position j on come, in order, from candidates at positions
\* p >= k within the first SliceLimit that were checked and reported available
RECURSIVE EmbedsFrom(_, _, _, _, _)
EmbedsFrom(out, j, torrents, checks, k) ==
    IF j > Len(out) THEN TRUE
    ELSE LET ps == {p \in k..SliceLimit :
                       /\ p <= Len(torrents)
                       /\ p <= Len(checks)
                       /\ checks[p]
                       /\ torrents[p].infoHash = out[j].infoHash
                       /\ torrents[p].title = out[j].title
                       /\ torrents[p].source = out[j].name}
         IN  /\ ps # {}
             /\ EmbedsFrom(out, j + 1, torrents, checks,
                           (CHOOSE p \in ps : \A p2 \in ps : p <= p2) + 1)

\* the entries of a result that are streams (not the notFound notices)
RealStreams(result) == SelectSeq(result, LAMBDA e : ~e.notFound)

FromAvailablePrefix(r) ==
    /\ Len(reqs[r].checks) <= SliceLimit
    /\ EmbedsFrom(RealStreams(reqs[r].result), 1, reqs[r].torrents, reqs[r].checks, 1)

\* C10 as claimed: every stream of every returned result comes from one of
\* the first 15 candidates, one the provider reported available in this
\* request, in candidate order.
C10_AllOutputFromThisRequest ==
    \A r \in Slots : reqs[r].pc = "done" => FromAvailablePrefix(r)

\* C10 amended: the same, for the result of a request that missed the cache
\* and ran the resolver loop.
C10_ResolvedFromAvailablePrefix ==
    \A r \in Slots : Resolved(r) => FromAvailablePrefix(r)

\* C10 witness: more than 15 candidates, the provider has the 16th cached and
\* lacks one of the first 15, and the request returned streams.
C10_Witness ==
    \E r \in Slots :
        /\ Resolved(r)
        /\ Len(reqs[r].torrents) > SliceLimit
        /\ Len(reqs[r].result) >= 2
        /\ \E k \in 1..SliceLimit : ~reqs[r].checks[k]
        /\ checkAvailability(reqs[r].torrents[SliceLimit + 1].infoHash,
                             [ok |-> TRUE, data |-> world.data]).available

(***************************************************************************)
(* The resolver loop, candidate by candidate.                              *)
(***************************************************************************)
\* what the provider answers for a candidate when its call succeeds
ProviderInfo(torrent) ==
    checkAvailability(torrent.infoHash, [ok |-> TRUE, data |-> world.data])

\* the positions of the candidates r's checks reported available, in order
AvailablePositions(r) ==
    Flatten([p \in 1..Len(reqs[r].checks) |->
                IF reqs[r].checks[p] THEN <<p>> ELSE <<>>])

\* C11: for a series request, with or without a season and episode in its
\* id, every checked candidate the provider reported available has its Stream
\* in the result, in order, and the Stream's file index is what the episode
\* matcher returns on the provider's file list (null when it finds no video
\* file).
C11_SeriesAvailableYieldsStream ==
    \A r \in Slots :
        (Resolved(r) /\ reqs[r].type = "series") =>
            LET ps == AvailablePositions(r)
            IN  /\ Len(reqs[r].result) = Len(ps)
                /\ \A j \in 1..Len(ps) :
                      LET t == reqs[r].torrents[ps[j]]
                          found == findVideoFile(ProviderInfo(t).files,
                                                 reqs[r].season, reqs[r].episode)
                      IN  /\ j <= Len(reqs[r].result)
                          /\ reqs[r].result[j].infoHash = t.infoHash
                          /\ ~found.threw => reqs[r].result[j].fileIdx = found.value

\* C12: for a movie request, the result is exactly one Stream per checked
\* candidate the provider reported available, in order, carrying the
\* candidate's source, title and identity hash and a null file index.
C12_MovieNullIndex ==
    \A r \in Slots :
        (Resolved(r) /\ reqs[r].type = "movie") =>
            LET ps == AvailablePositions(r)
            IN  /\ Len(reqs[r].result) = Len(ps)
                /\ \A j \in 1..Len(ps) :
                      LET t == reqs[r].torrents[ps[j]]
                      IN  /\ j <= Len(reqs[r].result)
                          /\ reqs[r].result[j]
                                = Stream(t.source, t.title, t.infoHash, Null)

\* C12 witness: a movie request whose search returned a single candidate, the
\* provider reported it available, and the result is one Stream with that hash
\* and a null file index.
C12_Witness ==
    \E r \in Slots :
        /\ Resolved(r)
        /\ reqs[r].type = "movie"
        /\ Len(reqs[r].torrents) = 1
        /\ reqs[r].checks = <<TRUE>>
        /\ Len(reqs[r].result) = 1
        /\ reqs[r].result[1].infoHash = reqs[r].torrents[1].infoHash
        /\ reqs[r].result[1].fileIdx = Null

IsPrefix(a, b) == Len(a) <= Len(b) /\ SubSeq(b, 1, Len(a)) = a

\* C13: whatever happens to the candidate under check (the provider call
\* fails, the provider lacks it, its iteration throws), the loop keeps the
\* streams emitted so far, adds at most this candidate's, and goes on to the
\* next candidate; it ends only after the last of the first 15, returning the
\* streams collected.
C13_DropsOnlyThatCandidate ==
    [][\A r \in Slots :
          (reqs[r].pc = "check" /\ reqs'[r] # reqs[r]) =>
              /\ Len(reqs'[r].checks) = Len(reqs[r].checks) + 1
              /\ IsPrefix(reqs[r].streams, reqs'[r].streams)
              /\ Len(reqs'[r].streams) <= Len(reqs[r].streams) + 1
              /\ \/ /\ reqs'[r].pc = "check"
                    /\ reqs'[r].i = reqs[r].i + 1
                    /\ reqs'[r].i <= SliceLimit
                    /\ reqs'[r].i <= Len(reqs[r].torrents)
                 \/ /\ reqs'[r].pc = "done"
                    /\ reqs[r].i = SliceLimit \/ reqs[r].i = Len(reqs[r].torrents)
                    /\ reqs'[r].result = reqs'[r].streams]_vars

\* C13 witness: the provider call failed for a candidate the provider holds,
\* and a later candidate was still checked and has its stream in the result.
C13_Witness ==
    \E r \in Slots :
        /\ Resolved(r)
        /\ \E p, p2 \in 1..Len(reqs[r].checks) :
              /\ p < p2
              /\ ~reqs[r].checks[p]
              /\ ProviderInfo(reqs[r].torrents[p]).available
              /\ reqs[r].checks[p2]
              /\ \E j \in 1..Len(reqs[r].result) :
                    reqs[r].result[j].infoHash = reqs[r].torrents[p2].infoHash

\* the file index is null, or a 1-based position of the file list at which a
\* file with a video extension stands
ValidFileIdx(fileIdx, files) ==
    \/ fileIdx = Null
    \/ /\ fileIdx.tag = "num"
       /\ fileIdx.n \in 1..Len(files)
       /\ files[fileIdx.n].hasPath
       /\ IsVideoName(ToLowerCase(files[fileIdx.n].path))

\* the streams a request has emitted so far and those it returned
EmittedStreams(r) == reqs[r].streams \o RealStreams(reqs[r].result)

\* C20: in every Stream the handler emits, the file index is null or an
\* integer i with 1 <= i <= the length of the provider's file list for that
\* candidate, and the file at position i has a video extension.
C20_FileIdxInRange ==
    \A r \in Slots :
        \A j \in 1..Len(EmittedStreams(r)) :
            LET st == EmittedStreams(r)[j]
            IN  ValidFileIdx(st.fileIdx,
                             checkAvailability(st.infoHash,
                                               [ok |-> TRUE, data |-> world.data]).files)

\* C20 witness: a returned Stream whose file index is 2, the matching episode
\* being the second of three files.
C20_Witness ==
    \E r \in Slots :
        /\ Resolved(r)
        /\ \E j \in 1..Len(reqs[r].result) :
              /\ reqs[r].result[j].fileIdx = Num(2)
              /\ Len(ProviderInfo(reqs[r].torrents[1]).files) = 3

(***************************************************************************)
(* The helper functions called directly.                                   *)
(***************************************************************************)
\* the positions of a torrent list that carry an identity hash
Hashed(torrents) == {k \in 1..Len(torrents) : torrents[k].infoHash # NoHash}

\* C14: in the output of removeDuplicates no two entries have the same
\* case-normalized identity hash, every hash of the input is retained, and the
\* entry retained for a hash is the first one of the input with that hash,
\* whatever its source.
C14_FirstOccurrenceKept ==
    call.op = "removeDuplicates" =>
        LET input == call.args
            output == call.out
        IN  /\ \A j, k \in Hashed(output) :
                  j # k => ToUpperCase(output[j].infoHash) # ToUpperCase(output[k].infoHash)
            /\ \A k \in Hashed(input) :
                  \E j \in Hashed(output) :
                      ToUpperCase(output[j].infoHash) = ToUpperCase(input[k].infoHash)
            /\ \A j \in Hashed(output) :
                  LET same == {k \in Hashed(input) :
                                  ToUpperCase(input[k].infoHash)
                                      = ToUpperCase(output[j].infoHash)}
                  IN  output[j] = input[CHOOSE k \in same : \A k2 \in same : k <= k2]

\* C14 witness: the same hash came first in lower case from one tracker,
\* then in upper case from another, and only the first entry was retained.
C14_Witness ==
    /\ call.op = "removeDuplicates"
    /\ Len(call.args) = 3
    /\ call.args[1].infoHash = Btih(1, "lower")
    /\ call.args[2].infoHash = Btih(1, "upper")
    /\ call.args[1].source # call.args[2].source
    /\ call.out = <<call.args[1], call.args[3]>>

\* C15: in the list sortByPriority returns, no candidate stands behind one
\* that has more than 10 seeders fewer, whatever their qualities.
C15_SeedersDecide ==
    call.op = "sortByPriority" =>
        \A i, j \in 1..Len(call.out) :
            i < j => ~(call.out[j].seeders - call.out[i].seeders > SeedDiffLimit)

\* the quality priorities as the documentation tabulates them
TablePriority(quality) ==
    CASE quality = "4K" -> 100
      [] quality = "REMUX" -> 95
      [] quality = "2160p" -> 90
      [] quality = "1080p" -> 80
      [] quality = "BluRay" -> 70
      [] quality = "WEB-DL" -> 65
      [] quality = "720p" -> 60
      [] quality = "WEBRip" -> 60
      [] quality = "HDTV" -> 50
      [] quality = "480p" -> 40
      [] OTHER -> 0

\* C16: for two candidates whose seeder counts differ by at most 10,
\* sortByPriority places first the one with the higher priority in the table
\* (4K 100, REMUX 95, 2160p 90, 1080p 80, BluRay 70, WEB-DL 65, 720p 60,
\* WEBRip 60, HDTV 50, 480p 40, anything else 0), whichever has more seeders.
C16_QualityBreaksTies ==
    (call.op = "sortByPriority" /\ Len(call.args) = 2) =>
        LET a == call.args[1]
            b == call.args[2]
        IN  (/\ Abs(a.seeders - b.seeders) <= 10
             /\ TablePriority(a.quality) # TablePriority(b.quality))
            => call.out = IF TablePriority(a.quality) > TablePriority(b.quality)
                          THEN <<a, b>>
                          ELSE <<b, a>>

\* C16 witness: two candidates 3 seeders apart, the one with fewer seeders and
\* the higher quality came second and was placed first.
C16_Witness ==
    /\ call.op = "sortByPriority"
    /\ call.args = <<Torrent(NoHash, 13, "720p", "Rutor"),
                     Torrent(NoHash, 10, "1080p", "Rutor")>>
    /\ call.out = <<call.args[2], call.args[1]>>

\* an episode matcher has been called
MatcherCalled == call.op \in {"findEpisodeFile", "findVideoFile"}

\* the lower-cased name of a file of the call, as the called matcher reads it
CalledName(k) ==
    IF call.args.files[k].hasPath THEN ToLowerCase(call.args.files[k].path) ELSE <<>>

\* the called matcher's video-extension test and structural match
CalledIsVideo(k) ==
    IF call.op = "findEpisodeFile" THEN IsUtilsVideoName(CalledName(k))
    ELSE IsVideoName(CalledName(k))

CalledMatches(k, season, episode) ==
    IF call.op = "findEpisodeFile" THEN UtilsMatchesEpisode(CalledName(k), season, episode)
    ELSE MatchesEpisode(CalledName(k), season, episode)

Least(S) == CHOOSE k \in S : \A k2 \in S : k <= k2

\* C17: whatever the file list, season and episode, the episode matcher does
\* not throw, and returns the 1-based position of the first video file that
\* structurally matches, else that of the first video file, else null.
C17_MatcherTotal ==
    MatcherCalled =>
        /\ ~call.out.threw
        /\ LET videos == {k \in 1..Len(call.args.files) : CalledIsVideo(k)}
               matching == {k \in videos :
                               CalledMatches(k, call.args.season, call.args.episode)}
           IN  call.out.value = IF matching # {} THEN Num(Least(matching))
                                ELSE IF videos # {} THEN Num(Least(videos))
                                ELSE Null

\* the decimal digits of e2 begin with those of e, and e2 is another number
StartsWithDigitsOf(e2, e) ==
    /\ e2 # e
    /\ Len(NatToString(e)) < Len(NatToString(e2))
    /\ SubSeq(NatToString(e2), 1, Len(NatToString(e))) = NatToString(e)

\* C19: in every pattern family, a file named for an episode whose number
\* merely starts with the digits of the requested episode (E10, 1x10,
\* "Episode 10" for episode 1) is not a structural match.
C19_DigitBoundary ==
    (/\ MatcherCalled
     /\ call.args.season.tag = "num"
     /\ call.args.episode.tag = "num") =>
        \A k \in 1..Len(call.args.files), family \in Families, e2 \in EpisodeNumbers :
            (/\ call.args.files[k].hasPath
             /\ call.args.files[k].path = NamedFor(family, call.args.season.n, e2)
             /\ StartsWithDigitsOf(e2, call.args.episode.n))
            => ~CalledMatches(k, call.args.season, call.args.episode)

ResolutionKeywords ==
    <<
      [label |-> "4K",
       keys |-> {<<"2","1","6","0","p">>, <<"4","k">>, <<"u","h","d">>}],
      [label |-> "1080p",
       keys |-> {<<"1","0","8","0","p">>}],
      [label |-> "720p",
       keys |-> {<<"7","2","0","p">>}],
      [label |-> "480p",
       keys |-> {<<"4","8","0","p">>}]
    >>

SourceKeywords ==
    <<
      [label |-> "REMUX",
       keys |-> {<<"r","e","m","u","x">>}],
      [label |-> "BluRay",
       keys |-> {<<"b","l","u","r","a","y">>, <<"b","d","r","i","p">>, <<"b","r","r","i","p">>}],
      [label |-> "WEB-DL",
       keys |-> {<<"w","e","b","-","d","l">>, <<"w","e","b","d","l">>}],
      [label |-> "WEBRip",
       keys |-> {<<"w","e","b","r","i","p">>}],
      [label |-> "HDTV",
       keys |-> {<<"h","d","t","v">>}],
      [label |-> "DVDRip",
       keys |-> {<<"d","v","d","r","i","p">>}],
      [label |-> "CAM",
       keys |-> {<<"c","a","m">>, <<"c","a","m","r","i","p">>}],
      [label |-> "TS",
       keys |-> {<<"t","s">>, <<"t","e","l","e","s","y","n","c">>}]
    >>

CodecKeywords ==
    <<
      [label |-> "HEVC",
       keys |-> {<<"h","e","v","c">>, <<"h","2","6","5">>, <<"x","2","6","5">>}],
      [label |-> "H.264",
       keys |-> {<<"h","2","6","4">>, <<"x","2","6","4">>, <<"a","v","c">>}],
      [label |-> "AV1",
       keys |-> {<<"a","v","1">>}]
    >>

AudioKeywords ==
    <<
      [label |-> "Dolby Atmos",
       keys |-> {<<"a","t","m","o","s">>}],
      [label |-> "TrueHD",
       keys |-> {<<"t","r","u","e","h","d">>}],
      [label |-> "DTS-HD",
       keys |-> {<<"d","t","s","-","h","d">>, <<"d","t","s","-","m","a">>}],
      [label |-> "DTS",
       keys |-> {<<"d","t","s">>}],
      [label |-> "DD 5.1",
       keys |-> {<<"d","d","5",".","1">>, <<"a","c","3">>}],
      [label |-> "AAC",
       keys |-> {<<"a","a","c">>}]
    >>

HdrKeywords ==
    {<<"h","d","r">>, <<"h","d","r","1","0">>, <<"d","o","l","b","y"," ","v","i","s","i","o","n">>, <<"d","v">>}

\* the label of the first group of which a keyword occurs in t, else null
FirstLabel(groups, t) ==
    LET hits == {g \in 1..Len(groups) : \E kw \in groups[g].keys : Includes(t, kw)}
    IN  IF hits = {} THEN NullField ELSE groups[Least(hits)].label

\* C18: for every title parseQuality returns a descriptor, the same for the
\* same title; each field is the label of the first keyword group, in the
\* field's fixed order, of which a keyword occurs in the lower-cased title,
\* independently of the other fields, and is left unset (null) when none
\* occurs; hdr is true iff an HDR keyword occurs.
C18_ParseQualityTotal ==
    call.op = "parseQuality" =>
        LET t == ToLowerCase(call.args)
        IN  /\ call.out.resolution = FirstLabel(ResolutionKeywords, t)
            /\ call.out.source = FirstLabel(SourceKeywords, t)
            /\ call.out.codec = FirstLabel(CodecKeywords, t)
            /\ call.out.audio = FirstLabel(AudioKeywords, t)
            /\ call.out.hdr = (\E kw \in HdrKeywords : Includes(t, kw))
            /\ call.out = parseQuality(call.args)

\* C18 witness: "Movie.Name.2020" gives no resolution, source, codec or audio
\* and hdr false.
C18_Witness ==
    /\ call.op = "parseQuality"
    /\ call.args = <<"M","o","v","i","e",".","N","a","m","e",".","2","0","2","0">>
    /\ call.out = [resolution |-> NullField, source |-> NullField, codec |-> NullField,
                   audio |-> NullField, hdr |-> FALSE]

(***************************************************************************)
(* The source adapters called directly.                                    *)
(***************************************************************************)
\* 40 hexadecimal characters, written in upper case
WellFormedHash(h) ==
    /\ h # NoHash
    /\ h.case = "upper"
    /\ Len(h.base) = HashLen
    /\ \A k \in 1..Len(h.base) : IsHexChar(h.base[k])

AdapterCalled == call.op \in {"JackettSearcher.search", "searchTracker"}

\* the link of a hit or of a Rutor row, empty when it has none
LinkOf(row) ==
    IF call.op = "JackettSearcher.search" THEN row.MagnetUri
    ELSE IF row.hasLink THEN row.href ELSE <<>>

BtihColon == <<"b","t","i","h",":">>

\* the hashes a link spells out: 40 hexadecimal characters after "btih:",
\* lower-cased
SpelledHashes(link) ==
    {ToLowerCase(SubSeq(link, k + 5, k + 4 + HashLen)) :
        k \in {j \in 1..Len(link) :
                  /\ j + 4 + HashLen <= Len(link)
                  /\ ToLowerCase(SubSeq(link, j, j + 4)) = BtihColon
                  /\ \A n \in (j + 5)..(j + 4 + HashLen) : IsHexChar(link[n])}}

\* the hashes that can be had from a hit or row of the call: those its link
\* spells out, or for a RuTracker or Kinozal row the digest made of its topic id
Obtainable(row) ==
    IF call.op = "searchTracker" /\ call.args.tracker # "Rutor"
    THEN IF row.hasTitle /\ row.topicId # <<>>
         THEN {Sha1Hex(<<"t","r","a","c","k","e","r","_">> \o row.topicId)}
         ELSE {}
    ELSE SpelledHashes(LinkOf(row))

\* C21: every candidate a source adapter returns (JackettSearcher.search,
\* searchRutor, searchRutracker, searchKinozal) has a non-empty identity hash
\* of exactly 40 hexadecimal characters, stored upper-cased, which is a hash
\* had from one of the hits or rows; there are no more candidates than hits or
\* rows that yield a hash, and none when the call fails.
C21_HashWellFormed ==
    AdapterCalled =>
        LET rows == call.args.rows
            out == call.out
        IN  /\ \A k \in 1..Len(out) :
                  /\ WellFormedHash(out[k].infoHash)
                  /\ \E j \in 1..Len(rows) : out[k].infoHash.base \in Obtainable(rows[j])
            /\ Len(out) <= Cardinality({j \in 1..Len(rows) : Obtainable(rows[j]) # {}})
            /\ ~call.args.ok => out = <<>>

\* C21 witness: Jackett answered with a hit whose magnet spells its hash in
\* mixed case and a hit whose hash is one character short; the only candidate
\* carries the first hash, upper-cased.
C21_Witness ==
    /\ call.op = "JackettSearcher.search"
    /\ call.args.ok
    /\ call.args.rows = <<Hit("T", MagnetMixed, FALSE, 5, "rutor"),
                          Hit("T", MagnetShort, FALSE, 5, "rutor")>>
    /\ Len(call.out) = 1
    /\ call.out[1].infoHash = Hash(HexRun(7, HashLen), "upper")
(***************************************************************************)
(* Placeholder hashes.                                                     *)
(***************************************************************************)
\* the hashes generateDummyHash makes for the topics the trackers list
PlaceholderHashes ==
    UNION {{generateDummyHash(world.rows[t][k].topicId) : k \in 1..Len(world.rows[t])} :
              t \in {"RuTracker", "Kinozal"}}

\* C22: a candidate whose identity hash was not extracted from a magnet
\* reference but made by generateDummyHash is never handed to the availability
\* check (the candidate objects carry title, hash, size, seeders, quality,
\* source and the topic id, and nothing that flags the hash as a placeholder).
C22_NoPlaceholderChecked ==
    \A r \in Slots :
        reqs[r].pc = "check" =>
            reqs[r].torrents[reqs[r].i].infoHash \notin PlaceholderHashes
(***************************************************************************)
(* RealDebridClient.checkAvailability called directly.                     *)
(***************************************************************************)
\* C23: when the provider's response holds cached variants for the hash asked
\* about under a key that differs from it at most in letter case, and the call
\* succeeds, checkAvailability reports the hash available.
C23_CaseInsensitiveLookup ==
    (/\ call.op = "checkAvailability"
     /\ call.args.ok
     /\ \E e \in call.args.data :
           e.key.base = call.args.infoHash.base /\ Len(e.rd) > 0)
        => call.out.available
(***************************************************************************)
(* Termination.                                                            *)
(***************************************************************************)
\* C24: every invoked request eventually returns, even when an external
\* service never responds.
C24_EventuallyReturns ==
    \A r \in Slots : (reqs[r].pc # "idle") ~> (reqs[r].pc = "done")
(***************************************************************************)
(* The cache under concurrent requests.                                    *)
(***************************************************************************)
\* C25: no step changes the entry of a key (its list or its timestamp) while
\* the entry is at most CACHE_TTL old; an entry is replaced only after it has
\* expired.
C25_EntryImmutable ==
    [][\A key \in DOMAIN cache :
          (key \in DOMAIN cache' /\ cache'[key] # cache[key])
              => now - cache[key].timestamp > CACHE_TTL]_vars
(***************************************************************************)
(* TorrentSearcher.search: the adapters in parallel.                       *)
(***************************************************************************)
\* C26: the step in which search is called starts every tracker adapter (all
\* are pending before any is awaited); while search is awaited the adapters
\* settle one by one, in any order; and search returns only in a step before
\* which every adapter has settled, never while one is pending.
C26_AllStartedAllSettled ==
    [][\A r \in Slots :
          /\ (reqs[r].pc # "direct" /\ reqs'[r].pc = "direct") =>
                /\ \A t \in TrackerSet : reqs'[r].settled[t] = Pending
                /\ TrackerSet \subseteq reqs'[r].calls
          /\ (reqs[r].pc = "direct" /\ reqs'[r].pc = "direct") =>
                \A t \in TrackerSet :
                    reqs[r].settled[t] # Pending => reqs'[r].settled[t] = reqs[r].settled[t]
          /\ (reqs[r].pc = "direct" /\ reqs'[r].pc # "direct") =>
                /\ \A t \in TrackerSet : reqs[r].settled[t].status \in {"fulfilled", "rejected"}
                /\ reqs'[r].pc \in {"check", "done"}]_vars

\* C26 witness: search is still awaited, the adapter registered last has
\* settled and the one registered first is still pending.
C26_Witness ==
    \E r \in Slots :
        /\ reqs[r].pc = "direct"
        /\ reqs[r].settled["Kinozal"].status = "fulfilled"
        /\ reqs[r].settled["Rutor"] = Pending
(***************************************************************************)
(* TorrentSearcher.search: the order of its result.                        *)
(***************************************************************************)
\* what the adapters of r's search produced, adapter by adapter in
\* registration order, each adapter's candidates in its own order
Discovered(r) ==
    Flatten([k \in 1..Len(Trackers) |-> reqs[r].settled[Trackers[k]].value])

\* the place of the i-th discovered candidate when the candidates are put in
\* descending order of seeders, equals in their order of discovery
PlaceBySeeders(found, i) ==
    1 + Cardinality({j \in 1..Len(found) :
                        \/ found[j].seeders > found[i].seeders
                        \/ found[j].seeders = found[i].seeders /\ j < i})

\* C27 as claimed: the list search returns is the concatenation of the
\* adapters' lists in registration order (Rutor, RuTracker, Kinozal), each in
\* the adapter's own order.
C27_DiscoveryOrder ==
    \A r \in Slots : DirectDone(r) => reqs[r].torrents = Discovered(r)

\* C27 amended: the list search returns holds exactly the adapters'
\* candidates, in descending order of seeders, candidates with equal seeders
\* in their order of discovery.
C27_BySeedersThenDiscovery ==
    \A r \in Slots :
        DirectDone(r) =>
            LET found == Discovered(r)
            IN  /\ Len(reqs[r].torrents) = Len(found)
                /\ \A i \in 1..Len(found) :
                      reqs[r].torrents[PlaceBySeeders(found, i)] = found[i]

\* C27 witness: Rutor's candidate has fewer seeders than those of RuTracker
\* and Kinozal, which have as many as each other: the list returned is
\* RuTracker's, Kinozal's, Rutor's.
C27_Witness ==
    \E r \in Slots :
        /\ DirectDone(r)
        /\ Len(reqs[r].torrents) = 3
        /\ reqs[r].torrents[1].source = "RuTracker"
        /\ reqs[r].torrents[2].source = "Kinozal"
        /\ reqs[r].torrents[3].source = "Rutor"
        /\ Discovered(r)[1].source = "Rutor"
(***************************************************************************)
(* What the cache holds and to whom it is served.                          *)
(***************************************************************************)
\* C28: a request served from the cache has the media type and the media id
\* of the request that stored the list it is served.
C28_SameKindSameId ==
    \A r, q \in Slots :
        (/\ r # q
         /\ reqs[r].hit
         /\ Wrote(q)
         /\ reqs[q].cacheKey = reqs[r].cacheKey
         /\ reqs[q].result = reqs[r].result)
        => (reqs[r].type = reqs[q].type /\ reqs[r].id = reqs[q].id)
\* every entry of the cache is a non-empty list of streams, the result of a
\* request that resolved under that key, each stream built from a candidate
\* the provider reported available to that request
EntriesAreResolvedStreams ==
    \A k \in DOMAIN cache :
        /\ Len(cache[k].data) > 0
        /\ \A i \in 1..Len(cache[k].data) : ~cache[k].data[i].notFound
        /\ \E q \in Slots :
              /\ Wrote(q)
              /\ reqs[q].cacheKey = k
              /\ reqs[q].result = cache[k].data
              /\ FromAvailablePrefix(q)

\* the step makes r return the missing-credential or the error entry
EndsInNotice(r) ==
    /\ reqs[r].pc # "done"
    /\ reqs'[r].pc = "done"
    /\ reqs'[r].result \in {ConfigRequiredStreams, ErrorStreams}

\* C29: after every step each cache entry holds a non-empty list of real
\* streams, each built from a candidate the provider reported available during
\* the request that wrote the entry; the missing-credential and error entries
\* are never stored, and a step in which a request ends in one of them leaves
\* the cache as it was.
C29_CacheHoldsOnlyStreams ==
    [][/\ EntriesAreResolvedStreams'
       /\ \A r \in Slots : EndsInNotice(r) => cache' = cache]_vars

\* C29 witness: one request has stored its streams, another has ended in the
\* error entry, and the cache holds the first one's list.
C29_Witness ==
    \E r, q \in Slots :
        /\ reqs[r].pc = "done"
        /\ reqs[r].result = ErrorStreams
        /\ Wrote(q)
        /\ reqs[q].cacheKey \in DOMAIN cache
        /\ cache[reqs[q].cacheKey].data = reqs[q].result
(***************************************************************************)
(* generateDummyHash over the rows of the scraped trackers.                *)
(***************************************************************************)
TopicTrackers == {"RuTracker", "Kinozal"}

\* the rows of a tracker's page for which the adapter makes a candidate
TopicRows(t) ==
    {k \in 1..Len(world.rows[t]) :
        world.rows[t][k].hasTitle /\ world.rows[t][k].topicId # <<>>}

\* C30: once a search has read the pages of RuTracker and Kinozal, two rows
\* that differ in tracker or in topic id have candidates with different
\* identity hashes (and a row has the same hash in every request).
C30_DistinctPlaceholders ==
    \A r \in Slots :
        DirectDone(r) =>
            \A t1, t2 \in TopicTrackers \cap reqs[r].fetched :
                \A k1 \in TopicRows(t1), k2 \in TopicRows(t2) :
                    LET row1 == world.rows[t1][k1]
                        row2 == world.rows[t2][k2]
                    IN  (t1 # t2 \/ row1.topicId # row2.topicId) =>
                            TopicRow(row1, t1)[1].infoHash # TopicRow(row2, t2)[1].infoHash
====
